---------------------------- MODULE Spec2Model ----------------------------
(***************************************************************************)
(* A model of the scraping / reconciliation pipeline of books_scrapper.py  *)
(* (parse_students_from_html, _merge_parsed_results,                       *)
(* scrape_students_from_url), of the persistence entry point              *)
(* database.insert_data and of the delete flows of the dashboard app.py.   *)
(*                                                                         *)
(* Python values are represented as follows.                               *)
(*   str            a TLA+ string; a text that is inspected character by   *)
(*                  character (a score text) is a sequence of one-char     *)
(*                  strings                                                *)
(*   None (str)     the reserved string None                               *)
(*   Optional num   <<>> for None, <<v>> for the number v                  *)
(*   list           a sequence                                             *)
(*   dict           a record; an insertion-ordered dict whose order        *)
(*                  matters is a sequence of records                       *)
(***************************************************************************)
EXTENDS Integers, Sequences, FiniteSets, TLC

VARIABLES
    sources,        \* merge: [main_parsed] + detail_parsed_list
    merged,         \* merge: the value returned by _merge_parsed_results
    mpc,            \* merge: "input" before the call, "done" or "raised" after it
    scoreIn,        \* parse_score: the argument s (Nothing: None; Some(chars): a str)
    scoreOut,       \* parse_score: the value returned (Nothing: None; Some(v))
    scpc,           \* parse_score: "input" before the call, "done" after it
    doc,            \* parse_students_from_html: the document (html), as its table or blocks
    parsed,         \* parse_students_from_html: the value returned
    ppc,            \* parse_students_from_html: "input" before the call, "done" after it
    spc,            \* scrape_students_from_url: where the call stands
    mainOutcome,    \* scrape: how session.get(url) / raise_for_status ended
    main_parsed,    \* scrape: parse_students_from_html(main_html)
    detail_links,   \* scrape: the links _find_detail_links returned
    fut,            \* scrape: per link, the state of its future
    handled,        \* scrape: the futures as_completed has yielded so far
    detail_parsed,  \* scrape: the list detail_parsed
    result,         \* scrape: the value returned (Nothing: none)
    submits,        \* scrape: per link, how often ex.submit(session.get, link) ran
    merges,         \* scrape: how often _merge_parsed_results was called
    students_table, \* database: the committed rows of table students
    classes_table,  \* database: the committed rows of table classes
    class_students, \* database: the committed rows (class_id, student_id) of class_students
    grades_table,   \* database: the committed rows of table grades
    sqlite_sequence,\* database: per AUTOINCREMENT table, the largest id given so far
    calls,          \* database: per insert_data call, its arguments and its locals
    open_txn,       \* database: a connection with an uncommitted INSERT is still open
    cellIn,         \* field splitter: the text cell (Nothing: null)
    cellOut,        \* field splitter: the sequence the split returned
    cellAgain,      \* field splitter: the split of cellOut rejoined with "; "
    fspc,           \* field splitter: "input", "split", then "done"
    app_students,   \* dashboard: the ids of the rows of table students
    app_grades,     \* dashboard: the rows of table grades, as [id, student_id]
    app_sequence,   \* dashboard: per AUTOINCREMENT table, the largest id given so far
    session_state,  \* dashboard: the keys of st.session_state that hold True
    menu,           \* dashboard: the view chosen in the sidebar
    sel_sid,        \* dashboard: sid, the student chosen in 'Select student' (0: none)
    sel_gid,        \* dashboard: gid, the grade chosen in 'Select grade' (0: none)
    shown,          \* dashboard: the keys of the buttons the last run drew
    clicked,        \* dashboard: the key of the button whose click started the last run
    rerun_pending,  \* dashboard: the last run ended in st.experimental_rerun()
    keyed_button    \* dashboard: what st.button gives for a key that session_state holds

mergeVars == <<sources, merged, mpc>>

scoreVars == <<scoreIn, scoreOut, scpc>>

parseVars == <<doc, parsed, ppc>>

scrapeVars == <<spc, mainOutcome, main_parsed, detail_links, fut, handled, detail_parsed, result,
                submits, merges>>

dbVars == <<students_table, classes_table, class_students, grades_table, sqlite_sequence,
            calls, open_txn>>

splitVars == <<cellIn, cellOut, cellAgain, fspc>>

dashVars == <<app_students, app_grades, app_sequence, session_state, menu, sel_sid, sel_gid, shown,
              clicked, rerun_pending, keyed_button>>

vars == <<sources, merged, mpc, scoreIn, scoreOut, scpc, doc, parsed, ppc,
          spc, mainOutcome, main_parsed, detail_links, fut, handled, detail_parsed, result,
          submits, merges,
          students_table, classes_table, class_students, grades_table, sqlite_sequence,
          calls, open_txn, cellIn, cellOut, cellAgain, fspc,
          app_students, app_grades, app_sequence, session_state, menu, sel_sid, sel_gid, shown,
          clicked, rerun_pending, keyed_button>>

-----------------------------------------------------------------------------
(* Generic helpers                                                         *)

None == "None"

Nothing == <<>>

Some(v) == <<v>>

Range(s) == {s[i] : i \in DOMAIN s}

InSeq(x, s) == \E i \in DOMAIN s : s[i] = x

\* list.index-like: the first position of x in s, 0 when absent
IndexOf(x, s) ==
    IF InSeq(x, s) THEN CHOOSE i \in DOMAIN s : s[i] = x /\ \A j \in 1..(i-1) : s[j] # x
    ELSE 0

SeqUpTo(S, n) == UNION {[1..k -> S] : k \in 0..n}

RECURSIVE SumLens(_)
SumLens(ss) == IF ss = <<>> THEN 0 ELSE Len(Head(ss)) + SumLens(Tail(ss))

\* a dataset without students, classes and grades
EmptyDataset == [students |-> <<>>, classes |-> <<>>, grades |-> <<>>]

\* a document without a table and without student blocks
EmptyDoc == [table |-> FALSE, headers |-> <<>>, rows |-> <<>>, blocks |-> <<>>]

\* The variables of an operation that a specification does not exercise
MergeIdle ==
    /\ sources = <<>>
    /\ merged = EmptyDataset
    /\ mpc = "idle"

ScoreIdle ==
    /\ scoreIn = Nothing
    /\ scoreOut = Nothing
    /\ scpc = "idle"

ParseIdle ==
    /\ doc = EmptyDoc
    /\ parsed = EmptyDataset
    /\ ppc = "idle"

ScrapeIdle ==
    /\ spc = "idle"
    /\ mainOutcome = "none"
    /\ main_parsed = EmptyDataset
    /\ detail_links = {}
    /\ fut = <<>>
    /\ handled = {}
    /\ detail_parsed = <<>>
    /\ result = Nothing
    /\ submits = <<>>
    /\ merges = 0

SplitIdle ==
    /\ cellIn = Nothing
    /\ cellOut = <<>>
    /\ cellAgain = <<>>
    /\ fspc = "idle"

DashIdle ==
    /\ app_students = {}
    /\ app_grades = {}
    /\ app_sequence = [students |-> 0, grades |-> 0]
    /\ session_state = {}
    /\ menu = "idle"
    /\ sel_sid = 0
    /\ sel_gid = 0
    /\ shown = {}
    /\ clicked = <<>>
    /\ rerun_pending = FALSE
    /\ keyed_button = "idle"

\* the database file does not exist yet: create_database makes empty tables
DbIdle ==
    /\ students_table = <<>>
    /\ classes_table = <<>>
    /\ class_students = {}
    /\ grades_table = <<>>
    /\ sqlite_sequence = [students |-> 0, classes |-> 0, grades |-> 0]
    /\ calls = <<>>
    /\ open_txn = FALSE

\* Python truthiness of an Optional[str]
Truthy(s) == s # None /\ s # ""

-----------------------------------------------------------------------------
(* Texts that are read character by character: sequences of one-character  *)
(* strings. A float is kept exactly, as the integer value * FloatScale.    *)

MaxTextLen == 4

Digits == <<"0", "1", "2", "3", "4", "5", "6", "7", "8", "9">>

IsDigit(c) == InSeq(c, Digits)

DigitVal(c) == IndexOf(c, Digits) - 1

IsSign(c) == c \in {"+", "-"}

IsSpace(c) == c = " "

RECURSIVE Pow10(_)
Pow10(n) == IF n = 0 THEN 1 ELSE 10 * Pow10(n - 1)

\* no text of the model has more than MaxTextLen + 1 fraction digits
FracDigits == MaxTextLen + 1

FloatScale == Pow10(FracDigits)

SubText(t, a, b) == [i \in 1..(b - a + 1) |-> t[a + i - 1]]

AllDigits(t) == \A i \in DOMAIN t : IsDigit(t[i])

RECURSIVE DigitsValue(_)
DigitsValue(t) ==
    IF t = <<>> THEN 0 ELSE 10 * DigitsValue(SubText(t, 1, Len(t) - 1)) + DigitVal(t[Len(t)])

\* str.replace(old, ''): every occurrence of the character is removed
RECURSIVE RemoveChar(_, _)
RemoveChar(t, c) ==
    IF t = <<>> THEN <<>>
    ELSE (IF Head(t) = c THEN <<>> ELSE <<Head(t)>>) \o RemoveChar(Tail(t), c)

\* str.strip(): leading and trailing whitespace is removed
RECURSIVE LStrip(_)
LStrip(t) == IF t # <<>> /\ IsSpace(Head(t)) THEN LStrip(Tail(t)) ELSE t

RECURSIVE RStrip(_)
RStrip(t) ==
    IF t # <<>> /\ IsSpace(t[Len(t)]) THEN RStrip(SubText(t, 1, Len(t) - 1)) ELSE t

Strip(t) == RStrip(LStrip(t))

\* the value of an unsigned decimal literal  digits [. [digits]]  |  . digits
\* as float() reads it; Nothing when the text is no such literal
UnsignedFloat(t) ==
    LET dot == IndexOf(".", t)
        ip  == IF dot = 0 THEN t ELSE SubText(t, 1, dot - 1)
        fp  == IF dot = 0 THEN <<>> ELSE SubText(t, dot + 1, Len(t))
    IN  IF AllDigits(ip) /\ AllDigits(fp) /\ Len(ip) + Len(fp) > 0
        THEN Some(DigitsValue(ip) * FloatScale + DigitsValue(fp) * Pow10(FracDigits - Len(fp)))
        ELSE Nothing

\* float(text) over the characters of the model (digits, sign, dot, blank and
\* noise): Nothing stands for ValueError
PyFloat(t) ==
    LET u == Strip(t)
        signed == u # <<>> /\ IsSign(Head(u))
        body == IF signed THEN Tail(u) ELSE u
        v == UnsignedFloat(body)
    IN  IF v = Nothing THEN Nothing
        ELSE IF signed /\ Head(u) = "-" THEN Some(0 - v[1])
        ELSE v

\* mutant: the percent sign is not removed
parse_score_KeepPercent(s) ==
    IF s = Nothing THEN Nothing ELSE PyFloat(Strip(s[1]))

parse_score(s) ==
    IF s = Nothing THEN Nothing
    ELSE PyFloat(Strip(RemoveChar(s[1], "%")))

ScoreChars == {"9", "5", ".", "%", "[", "]", "-", " ", "N"}

ScoreTexts == SeqUpTo(ScoreChars, MaxTextLen)

ScoreInit ==
    /\ scoreIn \in {Nothing} \cup {Some(t) : t \in ScoreTexts}
    /\ scoreOut = Nothing
    /\ scpc = "input"

ParseScoreCall ==
    /\ scpc = "input"
    /\ scoreOut' = parse_score(scoreIn)
    /\ scpc' = "done"
    /\ UNCHANGED scoreIn
    /\ UNCHANGED <<mergeVars, parseVars, scrapeVars, dbVars, splitVars, dashVars>>

-----------------------------------------------------------------------------
(* parse_students_from_html                                                *)
(*                                                                         *)
(* A document is what BeautifulSoup finds in it: a table (the header texts *)
(* and, per row after the first, the cell texts) or, without a table, the  *)
(* row elements with the texts of their sub-elements. Names, titles and    *)
(* e-mails are strings; grade and age texts are character sequences. A raw *)
(* entry (a dict) is the sequence of its items [k, v, list] in insertion   *)
(* order; list says that v is a Python list.                               *)

\* str.lower() on the header texts of the model
LowerTable ==
    << <<"Name", "name">>, <<"Class", "class">>, <<"Grade", "grade">>,
       <<"Email", "email">>, <<"Age", "age">>, <<"Score", "score">>,
       <<"Class A", "class a">>, <<"Class B", "class b">>,
       <<"Classes", "classes">>, <<"Grades", "grades">> >>

Lower(h) ==
    IF \E i \in DOMAIN LowerTable : LowerTable[i][1] = h
    THEN LowerTable[CHOOSE i \in DOMAIN LowerTable : LowerTable[i][1] = h][2]
    ELSE h

\* f'col_{i}'
ColKey(i) == <<"col_0", "col_1", "col_2", "col_3", "col_4", "col_5", "col_6">>[i + 1]

\* f'unknown_{idx}'
UnknownName(idx) == <<"unknown_1", "unknown_2", "unknown_3", "unknown_4">>[idx]

\* 'class' in k, 'grade' in k, 'score' in k on the keys of the model
ContainsClass(k) == k \in {"class", "classes", "class a", "class b"}

ContainsGrade(k) == k \in {"grade", "grades"}

ContainsScore(k) == k \in {"score"}

\* the characters of a title (iterating a str)
TitleChars(t) ==
    CASE t = "Math" -> <<"M", "a", "t", "h">>
      [] t = "Science" -> <<"S", "c", "i", "e", "n", "c", "e">>
      [] OTHER -> <<>>

DictHas(d, k) == \E i \in DOMAIN d : d[i].k = k

DictIndex(d, k) == CHOOSE i \in DOMAIN d : d[i].k = k

\* d[k] = v
DictSet(d, k, v, isList) ==
    IF DictHas(d, k)
    THEN [d EXCEPT ![DictIndex(d, k)] = [k |-> k, v |-> v, list |-> isList]]
    ELSE Append(d, [k |-> k, v |-> v, list |-> isList])

\* mutant: a cell beyond the header row is dropped
RECURSIVE TableEntryFrom_DropsExtraCells(_, _, _, _)
TableEntryFrom_DropsExtraCells(entry, headers, cols, i) ==
    IF i >= Len(cols) \/ i >= Len(headers) THEN entry
    ELSE TableEntryFrom_DropsExtraCells(DictSet(entry, headers[i + 1], cols[i + 1], FALSE),
                                        headers, cols, i + 1)

\* lines 49-55: the entry of one table row
RECURSIVE TableEntryFrom(_, _, _, _)
TableEntryFrom(entry, headers, cols, i) ==
    IF i >= Len(cols) THEN entry
    ELSE TableEntryFrom(
            DictSet(entry, IF i < Len(headers) THEN headers[i + 1] ELSE ColKey(i),
                    cols[i + 1], FALSE),
            headers, cols, i + 1)

TableEntry(headers, cols) == TableEntryFrom(<<>>, headers, cols, 0)

LowerAll(hs) == [i \in DOMAIN hs |-> Lower(hs[i])]

\* lines 44-56: rows holds the rows after the first
RECURSIVE TableRaw(_, _)
TableRaw(headers, rows) ==
    IF rows = <<>> THEN <<>>
    ELSE (IF Head(rows) = <<>> THEN <<>> ELSE <<TableEntry(headers, Head(rows))>>)
         \o TableRaw(headers, Tail(rows))

\* lines 100-113: the entry of one row element, from the texts found in it
BlockEntry(b) ==
    LET e1 == IF b.name # "" THEN <<[k |-> "name", v |-> b.name, list |-> FALSE]>> ELSE <<>>
        e2 == IF b.class_name # ""
              THEN Append(e1, [k |-> "classes", v |-> <<b.class_name>>, list |-> TRUE]) ELSE e1
        e3 == IF b.grade # <<>>
              THEN Append(e2, [k |-> "grades", v |-> <<b.grade>>, list |-> TRUE]) ELSE e2
        e4 == IF b.email # "" THEN Append(e3, [k |-> "email", v |-> b.email, list |-> FALSE]) ELSE e3
    IN  IF b.age # <<>> THEN Append(e4, [k |-> "age", v |-> b.age, list |-> FALSE]) ELSE e4

RECURSIVE BlockRaw(_)
BlockRaw(blocks) ==
    IF blocks = <<>> THEN <<>>
    ELSE (IF BlockEntry(Head(blocks)) = <<>> THEN <<>> ELSE <<BlockEntry(Head(blocks))>>)
         \o BlockRaw(Tail(blocks))

StudentsRaw(d) ==
    IF d.table THEN TableRaw(LowerAll(d.headers), d.rows) ELSE BlockRaw(d.blocks)

\* raw.get(k) of a str-valued key: "" stands for a missing or empty value
RawStr(raw, k) == IF DictHas(raw, k) THEN raw[DictIndex(raw, k)].v ELSE ""

\* raw.get('name') or raw.get('student') or raw.get('full name'), then the
\* placeholder
RawName(raw, idx) ==
    IF RawStr(raw, "name") # "" THEN RawStr(raw, "name")
    ELSE IF RawStr(raw, "student") # "" THEN RawStr(raw, "student")
    ELSE IF RawStr(raw, "full name") # "" THEN RawStr(raw, "full name")
    ELSE UnknownName(idx)

\* int(text): Nothing stands for ValueError
PyInt(t) ==
    LET u == Strip(t)
        signed == u # <<>> /\ IsSign(Head(u))
        body == IF signed THEN Tail(u) ELSE u
    IN  IF body = <<>> \/ ~AllDigits(body) THEN Nothing
        ELSE IF signed /\ Head(u) = "-" THEN Some(0 - DigitsValue(body))
        ELSE Some(DigitsValue(body))

RawAge(raw) ==
    IF DictHas(raw, "age") /\ raw[DictIndex(raw, "age")].v # <<>>
    THEN PyInt(raw[DictIndex(raw, "age")].v)
    ELSE Nothing

\* lines 149-153: the truthy values of the keys that contain 'class'
RECURSIVE ClassKeyValues(_)
ClassKeyValues(raw) ==
    IF raw = <<>> THEN <<>>
    ELSE (IF ContainsClass(Head(raw).k) /\ Head(raw).v # "" THEN <<Head(raw).v>> ELSE <<>>)
         \o ClassKeyValues(Tail(raw))

ClassNames(raw) ==
    IF DictHas(raw, "classes")
    THEN LET e == raw[DictIndex(raw, "classes")]
         IN  IF e.list THEN e.v ELSE TitleChars(e.v)
    ELSE IF DictHas(raw, "class") THEN <<raw[DictIndex(raw, "class")].v>>
    ELSE ClassKeyValues(raw)

\* lines 160-164: the truthy values of the keys that contain 'grade' or 'score'
RECURSIVE GradeKeyValues(_)
GradeKeyValues(raw) ==
    IF raw = <<>> THEN <<>>
    ELSE (IF (ContainsGrade(Head(raw).k) \/ ContainsScore(Head(raw).k)) /\ Head(raw).v # <<>>
          THEN <<Head(raw).v>> ELSE <<>>)
         \o GradeKeyValues(Tail(raw))

GradeVals(raw) ==
    IF DictHas(raw, "grades")
    THEN LET e == raw[DictIndex(raw, "grades")]
         IN  IF e.list THEN e.v ELSE [i \in DOMAIN e.v |-> <<e.v[i]>>]
    ELSE GradeKeyValues(raw)

\* mutant: a class beyond the grade values gets no score (the pairing that
\* the comment of line 191 describes)
PairedScore_PositionalOnly(grade_vals, i) ==
    IF i < Len(grade_vals) THEN parse_score(Some(grade_vals[i + 1])) ELSE Nothing

\* lines 187-192: the score paired with the class at (0-based) position i
PairedScore(grade_vals, i) ==
    IF i < Len(grade_vals) THEN parse_score(Some(grade_vals[i + 1]))
    ELSE IF grade_vals # <<>> THEN parse_score(Some(grade_vals[1]))
    ELSE Nothing

\* mutant: a grade value that does not parse is recorded with the score 0
RECURSIVE RecordGrades_ZeroForUnparsed(_, _, _, _)
RecordGrades_ZeroForUnparsed(idx, class_names, grade_vals, i) ==
    IF i >= Len(class_names) THEN <<>>
    ELSE LET score == PairedScore(grade_vals, i)
         IN  (IF score # Nothing \/ i < Len(grade_vals)
              THEN << [student_id |-> idx, class_title |-> class_names[i + 1],
                       score |-> IF score # Nothing THEN score[1] ELSE 0,
                       feedback |-> None] >>
              ELSE <<>>)
             \o RecordGrades_ZeroForUnparsed(idx, class_names, grade_vals, i + 1)

\* lines 180-200: the grades of one record, still with class titles
RECURSIVE RecordGrades(_, _, _, _)
RecordGrades(idx, class_names, grade_vals, i) ==
    IF i >= Len(class_names) THEN <<>>
    ELSE LET score == PairedScore(grade_vals, i)
         IN  (IF score # Nothing
              THEN << [student_id |-> idx, class_title |-> class_names[i + 1],
                       score |-> score[1], feedback |-> None] >>
              ELSE <<>>)
             \o RecordGrades(idx, class_names, grade_vals, i + 1)

\* mutant: every class name is registered, also one already in the table
RegisterClasses_NoDedup(classes_set, class_names) == classes_set \o class_names

\* lines 181-182 over one record's class names
RECURSIVE RegisterClasses(_, _)
RegisterClasses(classes_set, class_names) ==
    IF class_names = <<>> THEN classes_set
    ELSE RegisterClasses(IF InSeq(Head(class_names), classes_set) THEN classes_set
                         ELSE Append(classes_set, Head(class_names)),
                         Tail(class_names))

\* lines 132-200: the accumulators after the records from position idx on
RECURSIVE NormalizeFrom(_, _, _)
NormalizeFrom(acc, raws, idx) ==
    IF idx > Len(raws) THEN acc
    ELSE LET raw == raws[idx]
             class_names == ClassNames(raw)
             grade_vals == GradeVals(raw)
             student == [id |-> idx, name |-> RawName(raw, idx),
                         email |-> RawStr(raw, "email"), age |-> RawAge(raw),
                         enrolled_classes |-> class_names]
         IN  NormalizeFrom(
                [classes_set |-> RegisterClasses(acc.classes_set, class_names),
                 students |-> Append(acc.students, student),
                 grades |-> acc.grades \o RecordGrades(idx, class_names, grade_vals, 0)],
                raws, idx + 1)

\* lines 116-216
Normalize(raws) ==
    LET acc == NormalizeFrom([classes_set |-> <<>>, students |-> <<>>, grades |-> <<>>],
                             raws, 1)
        title_to_id(t) == IndexOf(t, acc.classes_set)
    IN  [students |-> [i \in DOMAIN acc.students |->
                         [acc.students[i] EXCEPT !.enrolled_classes =
                             [j \in DOMAIN @ |-> title_to_id(@[j])]]],
         classes |-> [i \in DOMAIN acc.classes_set |-> [id |-> i, title |-> acc.classes_set[i]]],
         grades |-> [i \in DOMAIN acc.grades |->
                       [student_id |-> acc.grades[i].student_id,
                        class_id |-> title_to_id(acc.grades[i].class_title),
                        score |-> acc.grades[i].score,
                        feedback |-> acc.grades[i].feedback]]]

parse_students_from_html(d) == Normalize(StudentsRaw(d))

\* Documents of the model
MaxRows == 2

NameTexts == {"Alice", "Bob"}

ClassTexts == {"", "Math", "Science"}

GradeTexts == {<<>>, <<"9", "5">>, <<"N", "/", "A">>}

ScoreTexts2 == {<<>>, <<"8", "8", "%">>}

EmailTexts == {"", "alice@example.com"}

AgeTexts == {<<>>, <<"1", "5">>, <<"x">>}

HeaderRows ==
    { <<"Name", "Class", "Grade", "Email">>,
      <<"Name", "Class A", "Class B", "Grade">>,
      <<"Class A", "Class B", "Grade", "Score">>,
      <<"Name", "Age", "Classes", "Grades">> }

CellTexts(h) ==
    CASE Lower(h) = "name" -> NameTexts
      [] Lower(h) \in {"class", "class a", "class b", "classes"} -> ClassTexts
      [] Lower(h) \in {"grade", "grades"} -> GradeTexts
      [] Lower(h) = "score" -> ScoreTexts2
      [] Lower(h) = "email" -> EmailTexts
      [] Lower(h) = "age" -> AgeTexts

RECURSIVE RowsFrom(_, _)
RowsFrom(hs, i) ==
    IF i > Len(hs) THEN {<<>>}
    ELSE {<<c>> \o r : c \in CellTexts(hs[i]), r \in RowsFrom(hs, i + 1)}

TableRows(hs) == RowsFrom(hs, 1)

Blocks == [name : {"", "Alice"}, class_name : {"", "Math", "Science"},
           grade : {<<>>, <<"9", "5">>}, email : {""}, age : {<<>>, <<"1", "5">>}]

\* tables whose rows are shorter or longer than the header row or hold no
\* cell at all, under header rows with and without a repeated name, in a
\* document that may also hold an element the row selector matches
RaggedTableDocs ==
    [table : {TRUE},
     headers : {<<"Name", "Class">>, <<"Name", "Class", "Class">>},
     rows : SeqUpTo({<<>>, <<"Bob">>, <<"Alice", "Math">>, <<"Alice", "Math", "Science">>,
                     <<"Bob", "Science", "", "Math">>}, MaxRows),
     blocks : {<<>>, <<[name |-> "Alice", class_name |-> "Science", grade |-> <<"9", "5">>,
                        email |-> "", age |-> <<>>]>>}]

ParseInit ==
    /\ \/ \E hs \in HeaderRows : \E rows \in SeqUpTo(TableRows(hs), MaxRows) :
             doc = [table |-> TRUE, headers |-> hs, rows |-> rows, blocks |-> <<>>]
       \/ doc \in RaggedTableDocs
       \/ \E bs \in SeqUpTo(Blocks, MaxRows) :
             doc = [table |-> FALSE, headers |-> <<>>, rows |-> <<>>, blocks |-> bs]
    /\ parsed = EmptyDataset
    /\ ppc = "input"

ParseCall ==
    /\ ppc = "input"
    /\ parsed' = parse_students_from_html(doc)
    /\ ppc' = "done"
    /\ UNCHANGED doc
    /\ UNCHANGED <<mergeVars, scoreVars, scrapeVars, dbVars, splitVars, dashVars>>

-----------------------------------------------------------------------------
(* Python's ordering of the class titles the model uses (str.__lt__)       *)

TitleOrder == <<"", "Art", "M", "Math", "S", "Science", "a", "c", "e", "h", "i", "n", "t">>

StrLess(a, b) == IndexOf(a, TitleOrder) < IndexOf(b, TitleOrder)

RECURSIVE SortedTitles(_)
SortedTitles(S) ==
    IF S = {} THEN <<>>
    ELSE LET m == CHOOSE x \in S : \A y \in S \ {x} : StrLess(x, y)
         IN  <<m>> \o SortedTitles(S \ {m})

-----------------------------------------------------------------------------
(* _merge_parsed_results                                                   *)

\* mutant: every title is appended, seen before or not
RECURSIVE AppendNewTitles_NoDedup(_, _)
AppendNewTitles_NoDedup(title_set, classes) ==
    IF classes = <<>> THEN title_set
    ELSE AppendNewTitles_NoDedup(Append(title_set, Head(classes).title), Tail(classes))

\* title_set after scanning one source's class list
RECURSIVE AppendNewTitles(_, _)
AppendNewTitles(title_set, classes) ==
    IF classes = <<>> THEN title_set
    ELSE LET t == Head(classes).title
         IN  AppendNewTitles(IF InSeq(t, title_set) THEN title_set
                             ELSE Append(title_set, t),
                             Tail(classes))

RECURSIVE CollectTitles(_, _)
CollectTitles(title_set, srcs) ==
    IF srcs = <<>> THEN title_set
    ELSE CollectTitles(AppendNewTitles(title_set, Head(srcs).classes), Tail(srcs))

TitleSet(srcs) == CollectTitles(<<>>, srcs)

\* class_map.get(title): 0 stands for None
ClassMapGet(title_set, title) == IndexOf(title, title_set)

class_id_to_title(src, cid) ==
    IF \E i \in DOMAIN src.classes : src.classes[i].id = cid
    THEN src.classes[CHOOSE i \in DOMAIN src.classes :
                        /\ src.classes[i].id = cid
                        /\ \A j \in 1..(i-1) : src.classes[j].id # cid].title
    ELSE None

StudentKey(s) == <<s.name, IF Truthy(s.email) THEN s.email ELSE "">>

KeyIndex(ms, key) ==
    IF \E i \in DOMAIN ms : ms[i].key = key
    THEN CHOOSE i \in DOMAIN ms : ms[i].key = key
    ELSE 0

EnrolledTitlesIn(src, s) ==
    {t \in {class_id_to_title(src, s.enrolled_classes[j]) : j \in DOMAIN s.enrolled_classes} :
        Truthy(t)}

\* mutant: the enrolled titles are taken at the first sight of a key only
MergeOneStudent_FirstSightOnly(ms, src, s) ==
    LET key == StudentKey(s)
    IN  IF KeyIndex(ms, key) = 0
        THEN Append(ms, [key |-> key, name |-> s.name, email |-> s.email,
                         age |-> s.age, enrolled_titles |-> EnrolledTitlesIn(src, s)])
        ELSE ms

MergeOneStudent(ms, src, s) ==
    LET key == StudentKey(s)
        ms1 == IF KeyIndex(ms, key) = 0
               THEN Append(ms, [key |-> key, name |-> s.name, email |-> s.email,
                                age |-> s.age, enrolled_titles |-> {}])
               ELSE ms
        i   == KeyIndex(ms1, key)
    IN  [ms1 EXCEPT ![i].enrolled_titles = @ \cup EnrolledTitlesIn(src, s)]

RECURSIVE MergeSourceStudents(_, _, _)
MergeSourceStudents(ms, src, studs) ==
    IF studs = <<>> THEN ms
    ELSE MergeSourceStudents(MergeOneStudent(ms, src, Head(studs)), src, Tail(studs))

RECURSIVE MergeStudents(_, _)
MergeStudents(ms, srcs) ==
    IF srcs = <<>> THEN ms
    ELSE MergeStudents(MergeSourceStudents(ms, Head(srcs), Head(srcs).students), Tail(srcs))

\* next((x for x in src['students'] if x['id'] == sid), None): 0 stands for None
SrcStudentIndex(src, sid) ==
    IF \E i \in DOMAIN src.students : src.students[i].id = sid
    THEN CHOOSE i \in DOMAIN src.students :
            /\ src.students[i].id = sid
            /\ \A j \in 1..(i-1) : src.students[j].id # sid
    ELSE 0

\* the merged_grades entries one source grade contributes (none or one)
MergeOneGrade(src, g) ==
    LET si == SrcStudentIndex(src, g.student_id)
        ctitle == class_id_to_title(src, g.class_id)
    IN  IF si = 0 THEN <<>>
        ELSE IF ~Truthy(ctitle) THEN <<>>
        ELSE << [student_key |-> StudentKey(src.students[si]),
                 class_title |-> ctitle,
                 score |-> g.score,
                 feedback |-> g.feedback] >>

RECURSIVE MergeSourceGrades(_, _)
MergeSourceGrades(src, gs) ==
    IF gs = <<>> THEN <<>>
    ELSE MergeOneGrade(src, Head(gs)) \o MergeSourceGrades(src, Tail(gs))

RECURSIVE MergeGrades(_)
MergeGrades(srcs) ==
    IF srcs = <<>> THEN <<>>
    ELSE MergeSourceGrades(Head(srcs), Head(srcs).grades) \o MergeGrades(Tail(srcs))

\* mutant: the titles are walked in descending order
EnrolledClassIds_Descending(title_set, titles) ==
    LET st == SortedTitles(titles)
    IN  [j \in DOMAIN st |-> ClassMapGet(title_set, st[Len(st) + 1 - j])]

EnrolledClassIds(title_set, titles) ==
    LET st == SortedTitles(titles)
    IN  [j \in DOMAIN st |-> ClassMapGet(title_set, st[j])]

StudentsList(title_set, ms) ==
    [i \in DOMAIN ms |->
        [id |-> i, name |-> ms[i].name, email |-> ms[i].email, age |-> ms[i].age,
         enrolled_classes |-> EnrolledClassIds(title_set, ms[i].enrolled_titles)]]

\* mutant: the ids of key_to_new_id are counted from 0
KeyToNewId_ZeroBased(ms, key) == IF KeyIndex(ms, key) = 0 THEN 0 ELSE KeyIndex(ms, key) - 1

\* key_to_new_id.get(key): 0 stands for None
KeyToNewId(ms, key) == KeyIndex(ms, key)

\* mutant: a grade is left out when a later grade has its student and class
RECURSIVE GradesList_SkipRepeated(_, _, _)
GradesList_SkipRepeated(title_set, ms, mgs) ==
    IF mgs = <<>> THEN <<>>
    ELSE LET mg == Head(mgs)
             new_sid == KeyToNewId(ms, mg.student_key)
             new_cid == ClassMapGet(title_set, mg.class_title)
             rest == GradesList_SkipRepeated(title_set, ms, Tail(mgs))
         IN  (IF /\ new_sid # 0 /\ new_cid # 0
                 /\ ~\E g \in Range(rest) : g.student_id = new_sid /\ g.class_id = new_cid
              THEN << [student_id |-> new_sid, class_id |-> new_cid,
                       score |-> mg.score, feedback |-> mg.feedback] >>
              ELSE <<>>)
             \o rest

RECURSIVE GradesList(_, _, _)
GradesList(title_set, ms, mgs) ==
    IF mgs = <<>> THEN <<>>
    ELSE LET mg == Head(mgs)
             new_sid == KeyToNewId(ms, mg.student_key)
             new_cid == ClassMapGet(title_set, mg.class_title)
         IN  (IF new_sid # 0 /\ new_cid # 0
              THEN << [student_id |-> new_sid, class_id |-> new_cid,
                       score |-> mg.score, feedback |-> mg.feedback] >>
              ELSE <<>>)
             \o GradesList(title_set, ms, Tail(mgs))

\* mutant: the ids of classes_list are counted from 0
ClassesList_ZeroBased(title_set) ==
    [i \in DOMAIN title_set |-> [id |-> i - 1, title |-> title_set[i]]]

ClassesList(title_set) ==
    [i \in DOMAIN title_set |-> [id |-> i, title |-> title_set[i]]]

MergeParsedResults(srcs) ==
    LET title_set == TitleSet(srcs)
        ms == MergeStudents(<<>>, srcs)
        mgs == MergeGrades(srcs)
    IN  [students |-> StudentsList(title_set, ms),
         classes  |-> ClassesList(title_set),
         grades   |-> GradesList(title_set, ms, mgs)]

-----------------------------------------------------------------------------
(* Inputs of _merge_parsed_results: parse-shaped documents (dense local    *)
(* ids, one class per title) whose enrollments and grades may carry ids    *)
(* that no student or class of the document has.                           *)

MaxDetails == 1
MaxClasses == 2
MaxStudents == 2
MaxTotalStudents == 2
MaxGrades == 1
MaxTotalGrades == 1

Titles == {"", "Math", "Science"}

Idents == { [name |-> "Alice", email |-> "alice@example.com"],
            [name |-> "Alice", email |-> ""],
            [name |-> "Alice", email |-> None],
            [name |-> "Bob",   email |-> ""] }

LocalIds == 1..MaxClasses

ClassLists ==
    { [i \in DOMAIN ts |-> [id |-> i, title |-> ts[i]]] :
        ts \in {s \in SeqUpTo(Titles, MaxClasses) :
                    \A i, j \in DOMAIN s : i # j => s[i] # s[j]} }

EnrollLists == { <<>>, <<1>>, <<2>>, <<1, 2>> }

\* the ages a source may give: only one of the students has a known age
AgesOf(k) == IF k.email = "alice@example.com" THEN {Nothing, Some(15)} ELSE {Nothing}

StudentFields ==
    UNION { { [name |-> k.name, email |-> k.email, age |-> a, enrolled_classes |-> e] :
                a \in AgesOf(k), e \in EnrollLists } : k \in Idents }

StudentLists ==
    { [i \in DOMAIN fs |-> [id |-> i, name |-> fs[i].name, email |-> fs[i].email,
                            age |-> fs[i].age,
                            enrolled_classes |-> fs[i].enrolled_classes]] :
        fs \in SeqUpTo(StudentFields, MaxStudents) }

GradeLists ==
    SeqUpTo([student_id : 1..MaxStudents, class_id : LocalIds,
             score : {95}, feedback : {None}], MaxGrades)

StudentPlacements(n) ==
    {f \in [1..n -> StudentLists] : SumLens(f) <= MaxTotalStudents}

GradePlacements(n) ==
    {f \in [1..n -> GradeLists] : SumLens(f) <= MaxTotalGrades}

MergeInit ==
    /\ \E n \in 1..(1 + MaxDetails) :
         \E cl \in [1..n -> ClassLists] :
           \E st \in StudentPlacements(n) :
             \E gr \in GradePlacements(n) :
               sources = [i \in 1..n |->
                            [students |-> st[i], classes |-> cl[i], grades |-> gr[i]]]
    /\ merged = EmptyDataset
    /\ mpc = "input"
    /\ ScoreIdle
    /\ ParseIdle
    /\ ScrapeIdle
    /\ DbIdle
    /\ SplitIdle
    /\ DashIdle

\* Sources for the grade list of the merge: up to MaxSourceGrades grades in
\* each source, for students and classes the source may or may not hold, over
\* few students and titles.
MaxSourceGrades == 2

GradedClassLists == {cl \in ClassLists : \A c \in Range(cl) : c.title \in {"", "Math"}}

GradedStudentLists ==
    LET rec(i, nm, em) == [id |-> i, name |-> nm, email |-> em, age |-> Nothing,
                           enrolled_classes |-> <<>>]
    IN  { <<>>,
          << rec(1, "Alice", "alice@example.com") >>,
          << rec(1, "Alice", "alice@example.com"), rec(2, "Bob", "") >>,
          << rec(1, "Bob", ""), rec(2, "Alice", "alice@example.com") >> }

GradedGradeLists ==
    SeqUpTo([student_id : 1..MaxStudents, class_id : LocalIds,
             score : {95}, feedback : {None}], MaxSourceGrades)

GradedMergeInit ==
    /\ \E n \in 1..(1 + MaxDetails) :
         \E cl \in [1..n -> GradedClassLists] :
           \E st \in [1..n -> GradedStudentLists] :
             \E gr \in [1..n -> GradedGradeLists] :
               sources = [i \in 1..n |->
                            [students |-> st[i], classes |-> cl[i], grades |-> gr[i]]]
    /\ merged = EmptyDataset
    /\ mpc = "input"
    /\ ScoreIdle
    /\ ParseIdle
    /\ ScrapeIdle
    /\ DbIdle
    /\ SplitIdle
    /\ DashIdle

\* class_map[t] at the construction of students_list raises KeyError for a
\* title that is not in class_map
MergeRaisesKeyError(srcs) ==
    LET title_set == TitleSet(srcs)
        ms == MergeStudents(<<>>, srcs)
    IN  \E i \in DOMAIN ms : \E t \in ms[i].enrolled_titles :
            ClassMapGet(title_set, t) = 0

MergeCall ==
    /\ mpc = "input"
    /\ IF MergeRaisesKeyError(sources)
       THEN merged' = EmptyDataset /\ mpc' = "raised"
       ELSE merged' = MergeParsedResults(sources) /\ mpc' = "done"
    /\ UNCHANGED sources
    /\ UNCHANGED <<scoreVars, parseVars, scrapeVars, dbVars, splitVars, dashVars>>

MergeNext == MergeCall

SpecMerge == MergeInit /\ [][MergeNext]_vars

SpecMergeGrades == GradedMergeInit /\ [][MergeNext]_vars

ScoreSpecInit == ScoreInit /\ MergeIdle /\ ParseIdle /\ ScrapeIdle /\ DbIdle /\ SplitIdle /\ DashIdle

ScoreNext == ParseScoreCall

SpecScore == ScoreSpecInit /\ [][ScoreNext]_vars

ParseSpecInit == ParseInit /\ MergeIdle /\ ScoreIdle /\ ScrapeIdle /\ DbIdle /\ SplitIdle /\ DashIdle

ParseNext == ParseCall

SpecParse == ParseSpecInit /\ [][ParseNext]_vars

-----------------------------------------------------------------------------
(* scrape_students_from_url                                                *)

MaxLinks == 7

\* the links 1..MaxLiveLinks may serve a document; a fetch of the others
\* always raises
MaxLiveLinks == 3

max_workers == 6

Links == 1..MaxLinks

\* the sets of links _find_detail_links may return: any set of live links,
\* or all links (more than the pool has workers)
LinkSets == (SUBSET (1..MaxLiveLinks)) \cup {Links}

TableDoc(hs, rows) == [table |-> TRUE, headers |-> hs, rows |-> rows, blocks |-> <<>>]

\* the documents the main url may serve
MainHtmls ==
    { TableDoc(<<"Name", "Class", "Grade", "Email">>,
               << <<"Alice", "Math", <<"9", "5">>, "alice@example.com">>,
                  <<"Bob", "Science", <<"8", "8", "%">>, "">> >>),
      TableDoc(<<"Name", "Class", "Grade", "Email">>,
               << <<"Alice", "", <<"9", "5">>, "">>,
                  <<"Alice", "Science", <<"N", "/", "A">>, "">> >>),
      TableDoc(<<"Name", "Class", "Grade", "Email">>, <<>>) }

\* the document a detail link serves
DetailHtml(l) ==
    CASE l % 3 = 1 -> TableDoc(<<"Name", "Class", "Grade", "Email">>,
                               << <<"Alice", "Science", <<"9", "5">>, "alice@example.com">> >>)
      [] l % 3 = 2 -> TableDoc(<<"Name", "Class A", "Class B", "Grade">>,
                               << <<"Bob", "Math", "", <<"9", "5">>>>,
                                  <<"Alice", "Science", "Math", <<>>>> >>)
      [] OTHER     -> TableDoc(<<"Name", "Age", "Class", "Grade">>,
                               << <<"Bob", <<"1", "5">>, "Art", <<"7", ".", "5">>>> >>)

\* how a fetch may end: a response, an exception of session.get, or a response
\* whose raise_for_status raises
FetchOutcomes == {"ok", "exception", "bad_status"}

\* how the fetch of link l may end
OutcomesOf(l) == IF l <= MaxLiveLinks THEN FetchOutcomes ELSE {"exception"}

\* mutant: a response with an error status counts as fetched
FetchFailed_StatusIgnored(outcome) == outcome = "exception"

\* lines 360-361 and 377-378: the fetch raises, in get or in raise_for_status
FetchFailed(outcome) == outcome \in {"exception", "bad_status"}

\* the body of an error response holds no table and no student blocks
ErrorPage == EmptyDoc

Served(html, outcome) == IF outcome = "bad_status" THEN ErrorPage ELSE html

ScrapeInit ==
    /\ spc = "start"
    /\ mainOutcome = "none"
    /\ main_parsed = EmptyDataset
    /\ detail_links = {}
    /\ fut = [l \in Links |-> "none"]
    /\ handled = {}
    /\ detail_parsed = <<>>
    /\ result = Nothing
    /\ submits = [l \in Links |-> 0]
    /\ merges = 0

\* lines 359-367
MainFetch ==
    /\ spc = "start"
    /\ \E outcome \in FetchOutcomes, html \in MainHtmls, links \in LinkSets :
         /\ mainOutcome' = outcome
         /\ IF FetchFailed(outcome)
            THEN /\ spc' = "raised"
                 /\ UNCHANGED <<main_parsed, detail_links>>
            ELSE /\ spc' = "fetched"
                 /\ main_parsed' = parse_students_from_html(Served(html, outcome))
                 /\ detail_links' = links
    /\ UNCHANGED <<fut, handled, detail_parsed, result, submits, merges>>
    /\ UNCHANGED <<mergeVars, scoreVars, parseVars, dbVars, splitVars, dashVars>>

\* lines 370-373: one future per link
SubmitAll ==
    /\ spc = "fetched"
    /\ fut' = [l \in Links |-> IF l \in detail_links THEN "queued" ELSE "none"]
    /\ submits' = [l \in Links |-> IF l \in detail_links THEN submits[l] + 1 ELSE submits[l]]
    /\ spc' = "pool"
    /\ UNCHANGED <<mainOutcome, main_parsed, detail_links, handled, detail_parsed, result, merges>>
    /\ UNCHANGED <<mergeVars, scoreVars, parseVars, dbVars, splitVars, dashVars>>

InFlight == {l \in Links : fut[l] = "running"}

\* mutant: the pool starts a thread for every submitted call
PoolHasIdleWorker_Unbounded == TRUE

\* line 372: ThreadPoolExecutor(max_workers=6) runs at most 6 calls at a time
PoolHasIdleWorker == Cardinality(InFlight) < max_workers

\* a worker thread of the pool takes a queued call
WorkerStart(l) ==
    /\ spc = "pool"
    /\ fut[l] = "queued"
    /\ PoolHasIdleWorker
    /\ fut' = [fut EXCEPT ![l] = "running"]
    /\ UNCHANGED <<spc, mainOutcome, main_parsed, detail_links, handled, detail_parsed, result,
                   submits, merges>>
    /\ UNCHANGED <<mergeVars, scoreVars, parseVars, dbVars, splitVars, dashVars>>

\* session.get(link) ends in its worker thread
WorkerFinish(l) ==
    /\ spc = "pool"
    /\ fut[l] = "running"
    /\ \E outcome \in OutcomesOf(l) : fut' = [fut EXCEPT ![l] = outcome]
    /\ UNCHANGED <<spc, mainOutcome, main_parsed, detail_links, handled, detail_parsed, result,
                   submits, merges>>
    /\ UNCHANGED <<mergeVars, scoreVars, parseVars, dbVars, splitVars, dashVars>>

\* lines 374-383: as_completed yields a finished future
HandleCompleted(l) ==
    /\ spc = "pool"
    /\ fut[l] \in FetchOutcomes
    /\ l \notin handled
    /\ handled' = handled \cup {l}
    /\ detail_parsed' =
          IF FetchFailed(fut[l]) THEN detail_parsed
          ELSE Append(detail_parsed, parse_students_from_html(Served(DetailHtml(l), fut[l])))
    /\ UNCHANGED <<spc, mainOutcome, main_parsed, detail_links, fut, result, submits, merges>>
    /\ UNCHANGED <<mergeVars, scoreVars, parseVars, dbVars, splitVars, dashVars>>

\* mutant: only the detail documents are merged
MergeInput_DetailsOnly(mp, dps) == IF dps = <<>> THEN <<mp>> ELSE dps

\* mutant: the detail results are handed to the merge before the main result
MergeInput_DetailsFirst(mp, dps) == dps \o <<mp>>

\* line 386: the arguments of the merge, as its list of sources
MergeInput(mp, dps) == <<mp>> \o dps

\* mutant: the loop over as_completed ends with the first future it yields
AllFuturesHandled_FirstOnly == handled # {} \/ detail_links = {}

\* lines 372-383: the loop over as_completed and the with block end when
\* every submitted future was yielded
AllFuturesHandled == handled = detail_links

\* lines 385-387
MergeAndReturn ==
    /\ spc = "pool"
    /\ AllFuturesHandled
    /\ merges' = merges + 1
    /\ IF MergeRaisesKeyError(MergeInput(main_parsed, detail_parsed))
       THEN spc' = "raised" /\ UNCHANGED result
       ELSE /\ spc' = "returned"
            /\ result' = Some(MergeParsedResults(MergeInput(main_parsed, detail_parsed)))
    /\ UNCHANGED <<mainOutcome, main_parsed, detail_links, fut, handled, detail_parsed, submits>>
    /\ UNCHANGED <<mergeVars, scoreVars, parseVars, dbVars, splitVars, dashVars>>

ScrapeSpecInit == ScrapeInit /\ MergeIdle /\ ScoreIdle /\ ParseIdle /\ DbIdle /\ SplitIdle /\ DashIdle

ScrapeNext ==
    \/ MainFetch
    \/ SubmitAll
    \/ \E l \in Links : WorkerStart(l)
    \/ \E l \in Links : WorkerFinish(l)
    \/ \E l \in Links : HandleCompleted(l)
    \/ MergeAndReturn

SpecScrape == ScrapeSpecInit /\ [][ScrapeNext]_vars

-----------------------------------------------------------------------------
(* database.insert_data                                                    *)

\* students.email is UNIQUE; NULL never collides
EmailTaken(table, email) ==
    email # None /\ \E r \in Range(table) : r.email = email

\* the loop of lines 116-119 over insert_student: acc holds the students
\* table, its AUTOINCREMENT counter, the list student_ids and whether an
\* INSERT raised sqlite3.IntegrityError
RECURSIVE InsertStudents(_, _, _)
InsertStudents(acc, students, i) ==
    IF i > Len(students) \/ acc.raised THEN acc
    ELSE LET student == students[i]
             sid == acc.seq + 1
         IN  IF EmailTaken(acc.table, student.email)
             THEN [acc EXCEPT !.raised = TRUE]
             ELSE InsertStudents(
                     [table |-> Append(acc.table,
                                       [id |-> sid, name |-> student.name,
                                        email |-> student.email, age |-> student.age]),
                      seq |-> sid,
                      student_ids |-> Append(acc.student_ids, sid),
                      raised |-> FALSE],
                     students, i + 1)

\* the loop of lines 122-125 over insert_class: each class row, and its
\* INSERT OR IGNORE rows of class_students
RECURSIVE InsertClasses(_, _, _)
InsertClasses(acc, classes, i) ==
    IF i > Len(classes) THEN acc
    ELSE LET class_obj == classes[i]
             class_id == acc.seq + 1
         IN  InsertClasses(
                [table |-> Append(acc.table,
                                  [id |-> class_id, title |-> class_obj.title,
                                   teacher_name |-> class_obj.teacher_name,
                                   schedule |-> class_obj.schedule]),
                 seq |-> class_id,
                 links |-> acc.links \cup {<<class_id, student_id>> :
                                              student_id \in Range(class_obj.students)},
                 class_ids |-> Append(acc.class_ids, class_id)],
                classes, i + 1)

\* the row insert_grade writes for grade_obj
GradeRow(gid, grade_obj) ==
    [id |-> gid, student_id |-> grade_obj.student_id, class_id |-> grade_obj.class_id,
     score |-> grade_obj.score, feedback |-> grade_obj.feedback]

\* the loop of lines 128-129 over insert_grade
RECURSIVE InsertGrades(_, _, _)
InsertGrades(acc, grades, i) ==
    IF i > Len(grades) THEN acc
    ELSE InsertGrades(
            [table |-> Append(acc.table, GradeRow(acc.seq + 1, grades[i])),
             seq |-> acc.seq + 1,
             grade_ids |-> Append(acc.grade_ids, acc.seq + 1)],
            grades, i + 1)

StudentsInserted(students) ==
    InsertStudents([table |-> students_table, seq |-> sqlite_sequence.students,
                    student_ids |-> <<>>, raised |-> FALSE], students, 1)

\* Arguments of the model
MaxCalls == 2

MaxDbStudents == 2

MaxDbClasses == 1

MaxDbGrades == 1

StudentCreates == [name : {"Alice", "Bob"}, email : {None, "alice@example.com"},
                   age : {Nothing}]

ClassCreates == [title : {"Math"}, teacher_name : {None}, schedule : {None},
                 students : {<<>>, <<1>>, <<2>>}]

GradeCreates == [student_id : 1..MaxDbStudents, class_id : 1..MaxDbClasses,
                 score : {95}, feedback : {None}]

DbInit == DbIdle

\* insert_data(students, classes, grades) runs to conn.commit()
InsertData(students, classes, grades) ==
    LET st == StudentsInserted(students)
        cl == InsertClasses([table |-> classes_table, seq |-> sqlite_sequence.classes,
                             links |-> class_students, class_ids |-> <<>>], classes, 1)
        gr == InsertGrades([table |-> grades_table, seq |-> sqlite_sequence.grades,
                            grade_ids |-> <<>>], grades, 1)
    IN  /\ Len(calls) < MaxCalls
        /\ ~open_txn
        /\ ~st.raised
        /\ students_table' = st.table
        /\ classes_table' = cl.table
        /\ class_students' = cl.links
        /\ grades_table' = gr.table
        /\ sqlite_sequence' = [students |-> st.seq, classes |-> cl.seq, grades |-> gr.seq]
        /\ calls' = Append(calls, [students |-> students, classes |-> classes,
                                   grades |-> grades, student_ids |-> st.student_ids,
                                   class_ids |-> cl.class_ids, grade_ids |-> gr.grade_ids,
                                   committed |-> TRUE])
        /\ UNCHANGED open_txn
        /\ UNCHANGED <<mergeVars, scoreVars, parseVars, scrapeVars, splitVars, dashVars>>

\* insert_data(students, classes, grades) when an INSERT INTO students
\* violates UNIQUE(email): the exception leaves insert_data before
\* conn.commit() and conn.close(), so nothing of the call is committed and
\* its connection stays open, holding the write lock, until it is collected
InsertDataRaises(students, classes, grades) ==
    LET st == StudentsInserted(students)
    IN  /\ Len(calls) < MaxCalls
        /\ ~open_txn
        /\ st.raised
        /\ calls' = Append(calls, [students |-> students, classes |-> classes,
                                   grades |-> grades, student_ids |-> st.student_ids,
                                   class_ids |-> <<>>, grade_ids |-> <<>>,
                                   committed |-> FALSE])
        /\ open_txn' = TRUE
        /\ UNCHANGED <<students_table, classes_table, class_students, grades_table,
                       sqlite_sequence>>
        /\ UNCHANGED <<mergeVars, scoreVars, parseVars, scrapeVars, splitVars, dashVars>>

\* insert_data(students, classes, grades) while an earlier connection still
\* holds the write lock: the first INSERT raises sqlite3.OperationalError
\* (database is locked); a call without students, classes and grades
\* executes no INSERT and commits nothing
InsertDataLocked(students, classes, grades) ==
    /\ Len(calls) < MaxCalls
    /\ open_txn
    /\ calls' = Append(calls, [students |-> students, classes |-> classes,
                               grades |-> grades, student_ids |-> <<>>,
                               class_ids |-> <<>>, grade_ids |-> <<>>,
                               committed |-> (students = <<>> /\ classes = <<>>
                                              /\ grades = <<>>)])
    /\ UNCHANGED <<students_table, classes_table, class_students, grades_table,
                   sqlite_sequence, open_txn>>
    /\ UNCHANGED <<mergeVars, scoreVars, parseVars, scrapeVars, splitVars, dashVars>>

\* the connection a raising call left open is collected (or the process
\* ends): its transaction is rolled back and the lock released
ConnectionCollected ==
    /\ open_txn
    /\ open_txn' = FALSE
    /\ UNCHANGED <<students_table, classes_table, class_students, grades_table,
                   sqlite_sequence, calls>>
    /\ UNCHANGED <<mergeVars, scoreVars, parseVars, scrapeVars, splitVars, dashVars>>

DbSpecInit == DbInit /\ MergeIdle /\ ScoreIdle /\ ParseIdle /\ ScrapeIdle /\ SplitIdle /\ DashIdle

DbNext ==
    \/ \E students \in SeqUpTo(StudentCreates, MaxDbStudents) :
       \E classes \in SeqUpTo(ClassCreates, MaxDbClasses) :
       \E grades \in SeqUpTo(GradeCreates, MaxDbGrades) :
           InsertData(students, classes, grades)
    \/ \E students \in SeqUpTo(StudentCreates, MaxDbStudents) :
       \E classes \in SeqUpTo(ClassCreates, MaxDbClasses) :
       \E grades \in SeqUpTo(GradeCreates, MaxDbGrades) :
           InsertDataRaises(students, classes, grades)
    \/ \E students \in SeqUpTo(StudentCreates, MaxDbStudents) :
       \E classes \in SeqUpTo(ClassCreates, MaxDbClasses) :
       \E grades \in SeqUpTo(GradeCreates, MaxDbGrades) :
           InsertDataLocked(students, classes, grades)
    \/ ConnectionCollected

SpecDB == DbSpecInit /\ [][DbNext]_vars

-----------------------------------------------------------------------------
(* FieldSplitter: the split of a delimited text cell                       *)

IsDelimiter(c) == c \in {";", ",", "|", "/"}

\* the pieces of t between delimiters, from position i on; cur is the piece
\* read so far
RECURSIVE PiecesFrom(_, _, _)
PiecesFrom(t, cur, i) ==
    IF i > Len(t) THEN <<cur>>
    ELSE IF IsDelimiter(t[i]) THEN <<cur>> \o PiecesFrom(t, <<>>, i + 1)
    ELSE PiecesFrom(t, Append(cur, t[i]), i + 1)

\* mutant: the pieces are not trimmed
FieldSplitter_NoTrim(text) ==
    IF text = Nothing THEN <<>>
    ELSE SelectSeq(PiecesFrom(text[1], <<>>, 1), LAMBDA piece : Strip(piece) # <<>>)

\* the split: each piece trimmed, the empty ones dropped; null gives no piece
FieldSplitter(text) ==
    IF text = Nothing THEN <<>>
    ELSE LET pieces == PiecesFrom(text[1], <<>>, 1)
         IN  SelectSeq([i \in DOMAIN pieces |-> Strip(pieces[i])],
                       LAMBDA piece : piece # <<>>)

\* "; ".join(pieces)
RECURSIVE Rejoin(_)
Rejoin(pieces) ==
    IF pieces = <<>> THEN <<>>
    ELSE IF Len(pieces) = 1 THEN pieces[1]
    ELSE pieces[1] \o <<";", " ">> \o Rejoin(Tail(pieces))

\* Text cells of the model
MaxCellLen == 4

CellChars == {"A", "B", " ", ";", ",", "|", "/"}

CellExamples == { <<"A", ";", " ", "B", ",", "C">>, <<"A", ";", "B", "|", "C">>,
                  <<"A", " ", "B", " ", "/", " ", ";", "C", " ">> }

SplitInit ==
    /\ cellIn \in {Nothing} \cup {Some(t) : t \in SeqUpTo(CellChars, MaxCellLen) \cup CellExamples}
    /\ cellOut = <<>>
    /\ cellAgain = <<>>
    /\ fspc = "input"

SplitCall ==
    /\ fspc = "input"
    /\ cellOut' = FieldSplitter(cellIn)
    /\ fspc' = "split"
    /\ UNCHANGED <<cellIn, cellAgain>>
    /\ UNCHANGED <<mergeVars, scoreVars, parseVars, scrapeVars, dbVars, dashVars>>

\* the split of the first result rejoined with "; "
ResplitCall ==
    /\ fspc = "split"
    /\ cellAgain' = FieldSplitter(Some(Rejoin(cellOut)))
    /\ fspc' = "done"
    /\ UNCHANGED <<cellIn, cellOut>>
    /\ UNCHANGED <<mergeVars, scoreVars, parseVars, scrapeVars, dbVars, dashVars>>

SplitSpecInit == SplitInit /\ MergeIdle /\ ScoreIdle /\ ParseIdle /\ ScrapeIdle /\ DbIdle /\ DashIdle

SplitNext ==
    \/ SplitCall
    \/ ResplitCall

SpecSplit == SplitSpecInit /\ [][SplitNext]_vars

-----------------------------------------------------------------------------
(* The dashboard, app.py, in one browser session. Every action is one run  *)
(* of the script main(), started by one interaction of the user or by      *)
(* st.experimental_rerun(). st.button gives True only in the run that its  *)
(* click started; st.session_state lasts for the session. The names and    *)
(* e-mails of the students and the scores are left out: no delete looks at *)
(* them.                                                                   *)

MaxAppStudents == 2
MaxAppGrades == 2

\* the key of a session_state entry or of a button: the text before the id
\* in its f-string, and the id
Key(prefix, id) == <<prefix, id>>

\* a run that no button click started
NoClick == <<>>

\* line 249 gives the button 'Confirm delete grade' the key under which line
\* 245 stores the confirmation flag. In the run that stored the flag
\* st.button raises StreamlitAPIException (a button's value cannot be set
\* through session_state). What it does in a later run, where the key holds
\* the value of an earlier run, is up to the library: it raises again, it
\* gives the stored value, or it gives whether the button was clicked.
KeyedButtonOutcomes == {"raises", "stored_value", "click"}

\* mutant: the confirmation is taken as given
session_state_get_AlwaysSet(state, key) == TRUE

\* lines 166 and 247: st.session_state.get(key) of a key that holds True or
\* is absent
session_state_get(state, key) == key \in state

\* lines 56-63
delete_student(student_id) ==
    /\ app_grades' = {g \in app_grades : g.student_id # student_id}
    /\ app_students' = app_students \ {student_id}

\* lines 84-89
delete_grade(grade_id) ==
    /\ app_grades' = {g \in app_grades : g.id # grade_id}
    /\ UNCHANGED app_students

\* lines 92-94 and 134-137: what 'Select student' can hold (0: no options)
StudentChoices == IF app_students = {} THEN {0} ELSE app_students

\* lines 215-218: what 'Select grade' can hold (0: no grades)
GradeChoices == IF app_grades = {} THEN {0} ELSE {g.id : g \in app_grades}

\* lines 133-181: the 'Update / Delete student' part of a run in which the
\* button click was clicked (NoClick: none) and student s is selected
StudentsView(click, s) ==
    LET flag == Key("confirm_delete_student", s)
        prompt == Key("delete_prompt", s)
        confirm == Key("confirm_delete", s)
        cancel == Key("cancel_delete", s)
        state == IF click = prompt THEN session_state \cup {flag} ELSE session_state
    IN  IF s = 0
        THEN /\ shown' = {}
             /\ rerun_pending' = FALSE
             /\ UNCHANGED <<app_students, app_grades, session_state>>
        ELSE IF ~session_state_get(state, flag)
        THEN /\ shown' = {prompt}
             /\ session_state' = state
             /\ rerun_pending' = FALSE
             /\ UNCHANGED <<app_students, app_grades>>
        ELSE IF click = confirm
        THEN /\ delete_student(s)
             /\ session_state' = state \ {flag}
             /\ rerun_pending' = TRUE
             /\ shown' = {}
        ELSE /\ shown' = {prompt, confirm, cancel}
             /\ session_state' = (IF click = cancel THEN state \ {flag} ELSE state)
             /\ rerun_pending' = FALSE
             /\ UNCHANGED <<app_students, app_grades>>

\* lines 214-261: the 'Update / Delete grade' part of a run in which the
\* button click was clicked (NoClick: none) and grade g is selected
GradesView(click, g) ==
    LET flag == Key("confirm_delete_grade", g)
        prompt == Key("delete_grade_prompt", g)
        confirm == Key("confirm_delete_grade", g)
        cancel == Key("cancel_delete_grade", g)
        state == IF click = prompt THEN session_state \cup {flag} ELSE session_state
    IN  IF g = 0
        THEN /\ shown' = {}
             /\ rerun_pending' = FALSE
             /\ UNCHANGED <<app_students, app_grades, session_state>>
        ELSE IF ~session_state_get(state, flag)
        THEN /\ shown' = {prompt}
             /\ session_state' = state
             /\ rerun_pending' = FALSE
             /\ UNCHANGED <<app_students, app_grades>>
        ELSE IF click = prompt \/ keyed_button = "raises"
        THEN \* line 249 raises: the run ends there
             /\ shown' = {prompt}
             /\ session_state' = state
             /\ rerun_pending' = FALSE
             /\ UNCHANGED <<app_students, app_grades>>
        ELSE IF click = confirm \/ keyed_button = "stored_value"
        THEN /\ delete_grade(g)
             /\ session_state' = state \ {flag}
             /\ rerun_pending' = TRUE
             /\ shown' = {}
        ELSE /\ shown' = {prompt, confirm, cancel}
             /\ session_state' = (IF click = cancel THEN state \ {flag} ELSE state)
             /\ rerun_pending' = FALSE
             /\ UNCHANGED <<app_students, app_grades>>

\* lines 97-261: one run of the script with view m, student s and grade g
\* selected, in which no form is submitted
main(click, m, s, g) ==
    /\ menu' = m
    /\ sel_sid' = s
    /\ sel_gid' = g
    /\ clicked' = click
    /\ IF m = "Students" THEN StudentsView(click, s) ELSE GradesView(click, g)
    /\ UNCHANGED <<app_sequence, keyed_button>>

\* the session starts on the view 'Students' over a database that holds
\* students and no grades; the first run of the script is still to come
DashInit ==
    /\ \E n \in 0..MaxAppStudents :
          /\ app_students = 1..n
          /\ app_sequence = [students |-> n, grades |-> 0]
    /\ app_grades = {}
    /\ session_state = {}
    /\ menu = "Students"
    /\ sel_sid = 0
    /\ sel_gid = 0
    /\ shown = {}
    /\ clicked = NoClick
    /\ rerun_pending = TRUE
    /\ keyed_button \in KeyedButtonOutcomes

\* the user changes the view or a selection: a run without a click
UserSelects ==
    /\ ~rerun_pending
    /\ \E m \in {"Students", "Grades"} : \E s \in StudentChoices : \E g \in GradeChoices :
          main(NoClick, m, s, g)
    /\ UNCHANGED <<mergeVars, scoreVars, parseVars, scrapeVars, dbVars, splitVars>>

\* the run that st.experimental_rerun() (or the start of the session) asks
\* for; the select boxes are drawn over the rows the database has now
Rerun ==
    /\ rerun_pending
    /\ \E s \in StudentChoices : \E g \in GradeChoices : main(NoClick, menu, s, g)
    /\ UNCHANGED <<mergeVars, scoreVars, parseVars, scrapeVars, dbVars, splitVars>>

\* the user clicks one of the buttons the last run drew
ClickButton ==
    /\ ~rerun_pending
    /\ \E b \in shown : main(b, menu, sel_sid, sel_gid)
    /\ UNCHANGED <<mergeVars, scoreVars, parseVars, scrapeVars, dbVars, splitVars>>

\* lines 117-127 and 35-45: the form 'Add student' is submitted with an
\* e-mail no student has; the run ends in st.experimental_rerun()
SubmitAddStudent ==
    /\ ~rerun_pending
    /\ menu = "Students"
    /\ app_sequence.students < MaxAppStudents
    /\ app_sequence' = [app_sequence EXCEPT !.students = @ + 1]
    /\ app_students' = app_students \cup {app_sequence.students + 1}
    /\ rerun_pending' = TRUE
    /\ shown' = {}
    /\ clicked' = Key("Add", 0)
    /\ UNCHANGED <<app_grades, session_state, menu, sel_sid, sel_gid, keyed_button>>
    /\ UNCHANGED <<mergeVars, scoreVars, parseVars, scrapeVars, dbVars, splitVars>>

\* lines 197-208 and 66-73
SubmitAddGrade ==
    /\ ~rerun_pending
    /\ menu = "Grades"
    /\ app_sequence.grades < MaxAppGrades
    /\ \E student_id \in app_students :
          app_grades' = app_grades \cup
              {[id |-> app_sequence.grades + 1, student_id |-> student_id]}
    /\ app_sequence' = [app_sequence EXCEPT !.grades = @ + 1]
    /\ rerun_pending' = TRUE
    /\ shown' = {}
    /\ clicked' = Key("Add Grade", 0)
    /\ UNCHANGED <<app_students, session_state, menu, sel_sid, sel_gid, keyed_button>>
    /\ UNCHANGED <<mergeVars, scoreVars, parseVars, scrapeVars, dbVars, splitVars>>

\* lines 226-240 and 76-81: the selected grade is given to a student
SubmitUpdateGrade ==
    /\ ~rerun_pending
    /\ menu = "Grades"
    /\ sel_gid # 0
    /\ \E student_id \in app_students :
          app_grades' = {IF g.id = sel_gid THEN [g EXCEPT !.student_id = student_id] ELSE g :
                            g \in app_grades}
    /\ rerun_pending' = TRUE
    /\ shown' = {}
    /\ clicked' = Key("Update Grade", 0)
    /\ UNCHANGED <<app_students, app_sequence, session_state, menu, sel_sid, sel_gid, keyed_button>>
    /\ UNCHANGED <<mergeVars, scoreVars, parseVars, scrapeVars, dbVars, splitVars>>

DashSpecInit ==
    DashInit /\ MergeIdle /\ ScoreIdle /\ ParseIdle /\ ScrapeIdle /\ DbIdle /\ SplitIdle

DashNext ==
    \/ UserSelects
    \/ Rerun
    \/ ClickButton
    \/ SubmitAddStudent
    \/ SubmitAddGrade
    \/ SubmitUpdateGrade

SpecDash == DashSpecInit /\ [][DashNext]_vars

-----------------------------------------------------------------------------
(* Properties of _merge_parsed_results                                     *)

SourceGradeSlots == {<<k, j>> \in (DOMAIN sources) \X (1..MaxGrades) :
                        j \in DOMAIN sources[k].grades}

StudentIdKnown(src, sid) == \E s \in Range(src.students) : s.id = sid

ClassIdKnown(src, cid) == \E c \in Range(src.classes) : c.id = cid

\* the title a source gives to a local class id (claim side)
TitleOfLocal(src, cid) == (CHOOSE c \in Range(src.classes) : c.id = cid).title

\* the dedup key (name, email-or-empty-string) of a student record (claim side)
DedupKey(s) == <<s.name, IF s.email = None THEN "" ELSE s.email>>

\* the id the returned class list gives to a title (0: the title is not listed)
GlobalIdOfTitle(t) ==
    IF \E c \in Range(merged.classes) : c.title = t
    THEN (CHOOSE c \in Range(merged.classes) : c.title = t).id
    ELSE 0

\* C1: after any call of _merge_parsed_results (also one whose sources hold
\* grades with a student_id or class_id unknown to their own source) the call
\* has not raised, every returned grade has the student_id of a returned
\* student and the class_id of a returned class, and no more grades are
\* returned than the sources hold grades with both local ids known: a grade
\* with an unknown local id is dropped.
C1_GradesReferenceReturnedIds ==
    mpc # "input" =>
        /\ mpc = "done"
        /\ \A g \in Range(merged.grades) :
              /\ \E s \in Range(merged.students) : s.id = g.student_id
              /\ \E c \in Range(merged.classes) : c.id = g.class_id
        /\ Len(merged.grades) <=
              Cardinality({sl \in SourceGradeSlots :
                  /\ StudentIdKnown(sources[sl[1]], sources[sl[1]].grades[sl[2]].student_id)
                  /\ ClassIdKnown(sources[sl[1]], sources[sl[1]].grades[sl[2]].class_id)})

\* a source holds a grade with an unknown student id beside students and
\* classes, and the merge returned students and classes but not that grade
C1_Witness ==
    /\ mpc = "done"
    /\ merged.students # <<>>
    /\ merged.classes # <<>>
    /\ merged.grades = <<>>
    /\ \E sl \in SourceGradeSlots :
          /\ ~StudentIdKnown(sources[sl[1]], sources[sl[1]].grades[sl[2]].student_id)
          /\ ClassIdKnown(sources[sl[1]], sources[sl[1]].grades[sl[2]].class_id)
          /\ sources[sl[1]].students # <<>>

SourceStudents == {<<k, s>> : k \in DOMAIN sources, s \in UNION {Range(sources[j].students) : j \in DOMAIN sources}}

SourceStudentSlots ==
    {ks \in SourceStudents : ks[2] \in Range(sources[ks[1]].students)}

SourceKeys == {DedupKey(ks[2]) : ks \in SourceStudentSlots}

\* every title (the empty title too) some source student with this key is
\* enrolled in, through its own source's class table
EnrolledTitlesOfKey(key) ==
    UNION { {TitleOfLocal(sources[ks[1]], cid) :
                cid \in {c \in Range(ks[2].enrolled_classes) : ClassIdKnown(sources[ks[1]], c)}} :
            ks \in {x \in SourceStudentSlots : DedupKey(x[2]) = key} }

OneStudentPerKey ==
    /\ {DedupKey(s) : s \in Range(merged.students)} = SourceKeys
    /\ \A i, j \in DOMAIN merged.students :
          DedupKey(merged.students[i]) = DedupKey(merged.students[j]) => i = j

\* C2 as stated: one returned student per dedup key, enrolled in exactly the
\* global ids of all titles its source students are enrolled in.
C2_Original ==
    mpc = "done" =>
        /\ OneStudentPerKey
        /\ \A s \in Range(merged.students) :
              Range(s.enrolled_classes) =
                  {GlobalIdOfTitle(t) : t \in EnrolledTitlesOfKey(DedupKey(s))}

\* C2 (amended): one returned student per dedup key (name,
\* email-or-empty-string) of the sources, also when a key occurs twice in one
\* document, and its enrolled classes are exactly the global ids of the
\* NON-EMPTY titles its source students are enrolled in; an enrollment in a
\* class whose title is the empty string is not carried over.
C2_OneStudentPerKeyUnionOfNonEmptyTitles ==
    mpc = "done" =>
        /\ OneStudentPerKey
        /\ \A s \in Range(merged.students) :
              /\ Range(s.enrolled_classes) =
                    {GlobalIdOfTitle(t) : t \in EnrolledTitlesOfKey(DedupKey(s)) \ {""}}
              /\ 0 \notin Range(s.enrolled_classes)

\* the same key in the main and in a detail document, enrolled in different
\* classes there, gives one student enrolled in both
C2_Witness ==
    /\ mpc = "done"
    /\ Len(sources) = 2
    /\ Len(merged.students) = 1
    /\ Len(sources[1].students) = 1
    /\ Len(sources[2].students) = 1
    /\ Len(merged.students[1].enrolled_classes) = 2
    /\ Len(sources[1].students[1].enrolled_classes) = 1
    /\ Len(sources[2].students[1].enrolled_classes) = 1

SourceClassSlots ==
    {<<k, p>> \in (DOMAIN sources) \X (1..MaxClasses) : p \in DOMAIN sources[k].classes}

SourceTitles == {sources[sl[1]].classes[sl[2]].title : sl \in SourceClassSlots}

\* where a title is first met when the class lists are read main first, then
\* the details in their order, each list front to back
FirstSight(t) ==
    CHOOSE sl \in SourceClassSlots :
        /\ sources[sl[1]].classes[sl[2]].title = t
        /\ \A o \in SourceClassSlots :
              sources[o[1]].classes[o[2]].title = t =>
                  \/ sl[1] < o[1]
                  \/ (sl[1] = o[1] /\ sl[2] <= o[2])

SlotBefore(a, b) == a[1] < b[1] \/ (a[1] = b[1] /\ a[2] < b[2])

ClassTitlesOf(src) == [i \in DOMAIN src.classes |-> src.classes[i].title]

\* C3: the returned classes carry the ids 1..M in list order, list every
\* source title once, and are ordered by first sight (main document first,
\* then the details in order); A=[Math], B=[Science, Math] gives Math=1,
\* Science=2.
C3_ClassIdsDenseInEncounterOrder ==
    mpc = "done" =>
        /\ \A i \in DOMAIN merged.classes : merged.classes[i].id = i
        /\ {c.title : c \in Range(merged.classes)} = SourceTitles
        /\ \A i, j \in DOMAIN merged.classes :
              i < j => /\ merged.classes[i].title # merged.classes[j].title
                       /\ SlotBefore(FirstSight(merged.classes[i].title),
                                     FirstSight(merged.classes[j].title))
        /\ (Len(sources) = 2 /\ ClassTitlesOf(sources[1]) = <<"Math">>
                /\ ClassTitlesOf(sources[2]) = <<"Science", "Math">>)
              => merged.classes = << [id |-> 1, title |-> "Math"],
                                     [id |-> 2, title |-> "Science"] >>

C3_Witness ==
    /\ mpc = "done"
    /\ Len(sources) = 2
    /\ ClassTitlesOf(sources[1]) = <<"Math">>
    /\ ClassTitlesOf(sources[2]) = <<"Science", "Math">>
    /\ Len(merged.classes) = 2

\* where a dedup key is first met when the student lists are read main first,
\* then the details in their order
StudentSlots ==
    {<<k, p>> \in (DOMAIN sources) \X (1..MaxStudents) : p \in DOMAIN sources[k].students}

FirstSightOfKey(key) ==
    CHOOSE sl \in StudentSlots :
        /\ DedupKey(sources[sl[1]].students[sl[2]]) = key
        /\ \A o \in StudentSlots :
              DedupKey(sources[o[1]].students[o[2]]) = key =>
                  \/ sl[1] < o[1]
                  \/ (sl[1] = o[1] /\ sl[2] <= o[2])

\* the source grades that resolve to a student of their source and to a
\* non-empty class title of their source, in source order: <<source, index>>
RECURSIVE ResolvingGradesFrom(_, _)
ResolvingGradesFrom(k, j) ==
    IF k > Len(sources) THEN <<>>
    ELSE IF j > Len(sources[k].grades) THEN ResolvingGradesFrom(k + 1, 1)
    ELSE LET g == sources[k].grades[j]
             ok == /\ StudentIdKnown(sources[k], g.student_id)
                   /\ ClassIdKnown(sources[k], g.class_id)
                   /\ TitleOfLocal(sources[k], g.class_id) # ""
         IN  (IF ok THEN << <<k, j>> >> ELSE <<>>) \o ResolvingGradesFrom(k, j + 1)

ResolvingGrades == ResolvingGradesFrom(1, 1)

OwnerOf(sl) ==
    LET src == sources[sl[1]]
    IN  CHOOSE s \in Range(src.students) : s.id = src.grades[sl[2]].student_id

\* C4: the returned student at position i has id i; the students stand in
\* the order in which their dedup keys are first met (so every key of the main
\* document stands before every key first met in a detail document); and the
\* student standing at position student_id of a returned grade has the dedup
\* key of the student that owned the grade in its source.
C4_StudentIdsPositional ==
    mpc = "done" =>
        /\ \A i \in DOMAIN merged.students : merged.students[i].id = i
        /\ \A i, j \in DOMAIN merged.students :
              i < j => SlotBefore(FirstSightOfKey(DedupKey(merged.students[i])),
                                  FirstSightOfKey(DedupKey(merged.students[j])))
        /\ \A i \in DOMAIN merged.students :
              (i <= Cardinality({DedupKey(s) : s \in Range(sources[1].students)}))
                  <=> (\E s \in Range(sources[1].students) :
                          DedupKey(s) = DedupKey(merged.students[i]))
        /\ Len(merged.grades) = Len(ResolvingGrades)
        /\ \A n \in DOMAIN merged.grades :
              /\ merged.grades[n].student_id \in DOMAIN merged.students
              /\ DedupKey(merged.students[merged.grades[n].student_id])
                    = DedupKey(OwnerOf(ResolvingGrades[n]))

\* a grade of a detail document whose owner has local id 1 there and stands
\* at position 2 of the returned students
C4_Witness ==
    /\ mpc = "done"
    /\ Len(sources) = 2
    /\ Len(merged.grades) = 1
    /\ sources[1].grades = <<>>
    /\ sources[2].grades[1].student_id = 1
    /\ merged.grades[1].student_id = 2

TitleOfGlobal(cid) == (CHOOSE c \in Range(merged.classes) : c.id = cid).title

\* C5 as stated: every returned student's enrolled_classes is ascending in
\* the numeric order of the ids.
C5_Original ==
    mpc = "done" =>
        \A s \in Range(merged.students) :
            \A i, j \in DOMAIN s.enrolled_classes :
                i < j => s.enrolled_classes[i] <= s.enrolled_classes[j]

\* C5 (amended): every returned student's enrolled_classes lists ids of
\* returned classes, without repetition, in ascending order of the class
\* TITLES (the order of Python's sorted on the titles), whatever the numeric
\* order of the ids.
C5_EnrolledSortedByTitle ==
    mpc = "done" =>
        \A s \in Range(merged.students) :
            /\ \A i \in DOMAIN s.enrolled_classes :
                  \E c \in Range(merged.classes) : c.id = s.enrolled_classes[i]
            /\ \A i, j \in DOMAIN s.enrolled_classes :
                  i < j => StrLess(TitleOfGlobal(s.enrolled_classes[i]),
                                   TitleOfGlobal(s.enrolled_classes[j]))

\* a student enrolled in two classes whose title order is the reverse of
\* their id order
C5_Witness ==
    /\ mpc = "done"
    /\ \E s \in Range(merged.students) :
          /\ Len(s.enrolled_classes) = 2
          /\ s.enrolled_classes[1] > s.enrolled_classes[2]

\* the slots, in source order, of the source students with the given key
\* that have an age
AgedSlotsOfKey(key) ==
    {sl \in StudentSlots :
        /\ DedupKey(sources[sl[1]].students[sl[2]]) = key
        /\ sources[sl[1]].students[sl[2]].age # Nothing}

\* C15: the age of a returned student is the age of the first source student
\* of its key (main document first, then the details) that has an age, and
\* None only when no source student of the key has one.
C15_AgeOfFirstOccurrenceWithAge ==
    mpc = "done" =>
        \A st \in Range(merged.students) :
            LET aged == AgedSlotsOfKey(DedupKey(st))
            IN  IF aged = {} THEN st.age = Nothing
                ELSE LET first == CHOOSE sl \in aged :
                                     \A o \in aged : sl = o \/ SlotBefore(sl, o)
                     IN  st.age = sources[first[1]].students[first[2]].age

-----------------------------------------------------------------------------
(* Properties of scrape_students_from_url                                  *)

OkLinks == {l \in detail_links : fut[l] = "ok"}

FailedLinks == {l \in detail_links : fut[l] \in {"exception", "bad_status"}}

\* how often a parsed document stands in detail_parsed
TimesParsed(d) == Cardinality({i \in DOMAIN detail_parsed : detail_parsed[i] = d})

TimesServed(d) ==
    Cardinality({l \in OkLinks : parse_students_from_html(DetailHtml(l)) = d})

\* a grade of the main document that the merge can resolve: its student id
\* and its class id are known to the main document and the class has a
\* non-empty title
MainGradeResolvable(g) ==
    /\ StudentIdKnown(main_parsed, g.student_id)
    /\ ClassIdKnown(main_parsed, g.class_id)
    /\ TitleOfLocal(main_parsed, g.class_id) # ""

MainOwner(g) == CHOOSE st \in Range(main_parsed.students) : st.id = g.student_id

ResultHasGrade(res, key, title, score) ==
    \E rg \in Range(res.grades) :
        /\ \E rs \in Range(res.students) : rs.id = rg.student_id /\ DedupKey(rs) = key
        /\ \E rc \in Range(res.classes) : rc.id = rg.class_id /\ rc.title = title
        /\ rg.score = score

\* C7: once the main fetch has succeeded the call is never aborted, whichever
\* detail fetches fail (exception or error status) and in whichever order they
\* complete: while a future is unhandled some future can start, finish or be
\* handled, and when the call returns, detail_parsed holds
\* exactly the parse results of the links whose fetch succeeded, the result
\* is the merge of the main document with these, and every student key, every
\* class title and every resolvable grade (known student, known class with a
\* non-empty title) of the main document is in the result.
C7_DetailFailuresTolerated ==
    /\ mainOutcome = "ok" => spc # "raised"
    /\ (spc = "pool" /\ handled # detail_links) =>
          \E l \in detail_links \ handled :
              \/ fut[l] = "running"
              \/ fut[l] \in FetchOutcomes
              \/ (fut[l] = "queued" /\ Cardinality(InFlight) < max_workers)
    /\ spc = "returned" =>
          /\ result # Nothing
          /\ handled = detail_links
          /\ Len(detail_parsed) = Cardinality(OkLinks)
          /\ \A l \in OkLinks :
                TimesParsed(parse_students_from_html(DetailHtml(l)))
                    = TimesServed(parse_students_from_html(DetailHtml(l)))
          /\ result[1] = MergeParsedResults(<<main_parsed>> \o detail_parsed)
          /\ \A st \in Range(main_parsed.students) :
                \E rs \in Range(result[1].students) : DedupKey(rs) = DedupKey(st)
          /\ \A c \in Range(main_parsed.classes) :
                \E rc \in Range(result[1].classes) : rc.title = c.title
          /\ \A g \in Range(main_parsed.grades) :
                MainGradeResolvable(g) =>
                    ResultHasGrade(result[1], DedupKey(MainOwner(g)),
                                   TitleOfLocal(main_parsed, g.class_id), g.score)

\* the call returned although one detail fetch raised and another came back
\* with an error status; one detail document and the main document's grades
\* are merged
C7_Witness ==
    /\ spc = "returned"
    /\ \E l \in detail_links : fut[l] = "exception"
    /\ \E l \in detail_links : fut[l] = "bad_status"
    /\ Len(detail_parsed) = 1
    /\ main_parsed.grades # <<>>
    /\ result[1].grades # <<>>

\* C8: when the main fetch fails (session.get raises or the response has an
\* error status) the call ends by raising: nothing is returned, and no detail
\* fetch is ever submitted, started or parsed.
C8_MainFailureFatal ==
    mainOutcome \in {"exception", "bad_status"} =>
        /\ spc = "raised"
        /\ result = Nothing
        /\ detail_links = {}
        /\ \A l \in Links : fut[l] = "none"
        /\ handled = {}
        /\ detail_parsed = <<>>

C8_Witness ==
    /\ spc = "raised"
    /\ mainOutcome = "bad_status"
    /\ result = Nothing


\* C17: the merge runs once, and only when every submitted detail fetch has
\* ended (with a response or a failure) and was handled; no result exists
\* while a detail fetch is queued or running.
C17_MergeOnceAfterAllFetches ==
    /\ merges <= 1
    /\ spc = "returned" => merges = 1
    /\ result # Nothing => merges = 1
    /\ merges = 1 =>
          /\ spc \in {"returned", "raised"}
          /\ InFlight = {}
          /\ \A l \in detail_links : fut[l] \in FetchOutcomes /\ l \in handled
          /\ \A l \in Links : fut[l] # "queued"
    /\ (\E l \in Links : fut[l] \in {"queued", "running"}) =>
          merges = 0 /\ result = Nothing

\* the call returned after three detail fetches, one of them failed
C17_Witness ==
    /\ spc = "returned"
    /\ merges = 1
    /\ Cardinality(detail_links) = 3
    /\ \E l \in detail_links : fut[l] = "ok"
    /\ \E l \in detail_links : fut[l] = "exception"
    /\ result # Nothing

\* C18: at most 6 detail fetches are in flight at any moment, no detail
\* fetch is submitted or running before the main fetch has ended, and every
\* discovered link is submitted exactly once, also after its fetch failed.
C18_BoundedPoolSubmitOnce ==
    /\ Cardinality(InFlight) <= 6
    /\ spc = "start" =>
          /\ mainOutcome = "none"
          /\ \A l \in Links : fut[l] = "none" /\ submits[l] = 0
    /\ (\E l \in Links : fut[l] # "none" \/ submits[l] # 0) => mainOutcome = "ok"
    /\ spc \in {"pool", "returned"} =>
          \A l \in Links : submits[l] = (IF l \in detail_links THEN 1 ELSE 0)
    /\ \A l \in Links : submits[l] <= 1
    /\ \A l \in Links : (fut[l] # "none") = (submits[l] = 1)

\* seven links were discovered: six fetches are in flight and the seventh
\* waits for a worker
C18_Witness ==
    /\ spc = "pool"
    /\ Cardinality(detail_links) = 7
    /\ Cardinality(InFlight) = 6
    /\ \E l \in detail_links : fut[l] = "queued"

\* the successfully fetched detail documents, parsed, in the order of their
\* links (one fixed order of completion)
RECURSIVE DetailsInLinkOrder(_)
DetailsInLinkOrder(l) ==
    IF l > MaxLinks THEN <<>>
    ELSE (IF l \in OkLinks THEN <<parse_students_from_html(DetailHtml(l))>> ELSE <<>>)
             \o DetailsInLinkOrder(l + 1)

\* C19: whatever detail documents were fetched and in whatever order their
\* fetches completed, every class of the main document stands in the returned
\* class list under the id it has in the main document's own parse result.
C19_MainClassIdsKept ==
    (spc = "returned" /\ result # Nothing) =>
        \A c \in Range(main_parsed.classes) :
            \E rc \in Range(result[1].classes) :
                rc.title = c.title /\ rc.id = c.id

C19_Witness ==
    /\ spc = "returned"
    /\ result # Nothing
    /\ Len(main_parsed.classes) >= 2
    /\ Len(detail_parsed) >= 2
    /\ detail_parsed # DetailsInLinkOrder(1)
    /\ Len(result[1].classes) > Len(main_parsed.classes)

\* the merge of the main document with the details in link order
LinkOrderResult == MergeParsedResults(MergeInput(main_parsed, DetailsInLinkOrder(1)))

KeyOfStudentId(ds, sid) == DedupKey(CHOOSE s \in Range(ds.students) : s.id = sid)

TitleOfClassId(ds, cid) == (CHOOSE c \in Range(ds.classes) : c.id = cid).title

GradeTriple(ds, g) ==
    <<KeyOfStudentId(ds, g.student_id), TitleOfClassId(ds, g.class_id), g.score>>

\* what of a dataset does not depend on ids: the class titles, the dedup keys
\* each with its enrolled titles, and how often each (key, title, score) grade
\* stands in the grade list
IdFreeView(ds) ==
    [titles   |-> {c.title : c \in Range(ds.classes)},
     students |-> {<<DedupKey(s), {TitleOfClassId(ds, cid) : cid \in Range(s.enrolled_classes)}>> :
                      s \in Range(ds.students)},
     grades   |-> [t \in {GradeTriple(ds, g) : g \in Range(ds.grades)} |->
                      Cardinality({i \in DOMAIN ds.grades : GradeTriple(ds, ds.grades[i]) = t})]]

\* C20: for a fixed main document and a fixed set of successfully fetched
\* detail documents, the returned dataset has the same class titles, the same
\* dedup keys each with the same enrolled titles, and the same multiset of
\* (key, title, score) grades as the merge taken in link order, whatever the
\* order in which the fetches completed; so any two completion orders agree on
\* these.
C20_CompletionOrderIndependent ==
    (spc = "returned" /\ result # Nothing) =>
        IdFreeView(result[1]) = IdFreeView(LinkOrderResult)

C20_Witness ==
    /\ spc = "returned"
    /\ result # Nothing
    /\ Len(detail_parsed) >= 2
    /\ detail_parsed # DetailsInLinkOrder(1)
    /\ result[1] # LinkOrderResult
    /\ result[1].grades # <<>>
    /\ IdFreeView(result[1]) = IdFreeView(LinkOrderResult)

\* the grades of the sources, as (source, position) pairs
GradeSlotsOfSources ==
    {<<k, j>> \in (DOMAIN sources) \X (1..MaxSourceGrades) : j \in DOMAIN sources[k].grades}

GradeAt(sl) == sources[sl[1]].grades[sl[2]]

\* a source grade whose student id its source knows and whose class id its
\* source gives a non-empty title
ResolvedGradeSlots ==
    {sl \in GradeSlotsOfSources :
        /\ StudentIdKnown(sources[sl[1]], GradeAt(sl).student_id)
        /\ ClassIdKnown(sources[sl[1]], GradeAt(sl).class_id)
        /\ TitleOfLocal(sources[sl[1]], GradeAt(sl).class_id) \notin {"", None}}

\* the dedup key and the class title a resolved source grade is for
KeyAndTitleOf(sl) ==
    <<KeyOfStudentId(sources[sl[1]], GradeAt(sl).student_id),
      TitleOfLocal(sources[sl[1]], GradeAt(sl).class_id)>>

\* C21: _merge_parsed_results returns as many grades as the sources hold
\* grades whose student id resolves in their source and whose class id
\* resolves there to a non-empty title; for every student key and class title
\* it returns as many grades as the sources hold resolved grades for them, so
\* a grade present in the main and in a detail document is returned twice.
C21_GradesNeverDeduplicated ==
    mpc = "done" =>
        /\ Len(merged.grades) = Cardinality(ResolvedGradeSlots)
        /\ \A sl \in ResolvedGradeSlots :
              Cardinality({i \in DOMAIN merged.grades :
                  <<KeyOfStudentId(merged, merged.grades[i].student_id),
                    TitleOfClassId(merged, merged.grades[i].class_id)>> = KeyAndTitleOf(sl)})
                = Cardinality({s2 \in ResolvedGradeSlots : KeyAndTitleOf(s2) = KeyAndTitleOf(sl)})

\* the main and a detail document both hold a grade of one student in one
\* class (beside a grade that does not resolve), and it is returned twice
C21_Witness ==
    /\ mpc = "done"
    /\ Len(sources) = 2
    /\ \E a, b \in ResolvedGradeSlots :
          a[1] = 1 /\ b[1] = 2 /\ KeyAndTitleOf(a) = KeyAndTitleOf(b)
    /\ GradeSlotsOfSources # ResolvedGradeSlots
    /\ Len(merged.grades) = 2
    /\ merged.grades[1].student_id = merged.grades[2].student_id
    /\ merged.grades[1].class_id = merged.grades[2].class_id

-----------------------------------------------------------------------------
(* Properties of parse_students_from_html                                  *)

\* the field name of the cell at (1-based) column i of a table row
CellKey(d, i) == IF i <= Len(d.headers) THEN Lower(d.headers[i]) ELSE ColKey(i - 1)

\* the last cell of row r that has the field name of the cell at column i
LastCellOfKey(d, r, i) ==
    LET same == {k \in DOMAIN r : CellKey(d, k) = CellKey(d, i)}
    IN  r[CHOOSE k \in same : \A m \in same : m <= k]

\* the rows after the first that hold at least one cell
RowsWithCells(d) == SelectSeq(d.rows, LAMBDA r : r # <<>>)

\* C11 as stated: a table gives exactly one record per row after the first,
\* in row order, whatever the row selector matches, and every cell of a row
\* is found in its record under the lower-cased header of its column, or
\* under col_<index> beyond the headers.
C11_Original ==
    (ppc = "done" /\ doc.table) =>
        LET raws == StudentsRaw(doc)
        IN  /\ Len(raws) = Len(doc.rows)
            /\ Len(parsed.students) = Len(doc.rows)
            /\ \A j \in DOMAIN doc.rows : \A i \in DOMAIN doc.rows[j] :
                  /\ DictHas(raws[j], CellKey(doc, i))
                  /\ raws[j][DictIndex(raws[j], CellKey(doc, i))].v = doc.rows[j][i]

\* C11 (amended): a table gives exactly one record per row after the first
\* that holds at least one cell, in row order, whatever the row selector
\* matches; the fields of a record are the lower-cased headers of the row's
\* columns, col_<index> beyond the headers, and each field holds the last
\* cell of the row that has its name.
C11_OneRecordPerRowWithCells ==
    (ppc = "done" /\ doc.table) =>
        LET raws == StudentsRaw(doc)
            rows == RowsWithCells(doc)
        IN  /\ Len(raws) = Len(rows)
            /\ Len(parsed.students) = Len(rows)
            /\ \A j \in DOMAIN rows :
                  /\ parsed.students[j].id = j
                  /\ {raws[j][n].k : n \in DOMAIN raws[j]}
                        = {CellKey(doc, i) : i \in DOMAIN rows[j]}
                  /\ \A n, m \in DOMAIN raws[j] : raws[j][n].k = raws[j][m].k => n = m
                  /\ \A i \in DOMAIN rows[j] :
                        raws[j][DictIndex(raws[j], CellKey(doc, i))].v
                            = LastCellOfKey(doc, rows[j], i)

\* a table of two rows, one of them longer than the header row, in a
\* document that also holds an element the row selector matches
C11_Witness ==
    /\ ppc = "done"
    /\ doc.table
    /\ doc.blocks # <<>>
    /\ Len(doc.rows) = 2
    /\ \A j \in DOMAIN doc.rows : doc.rows[j] # <<>>
    /\ \E j \in DOMAIN doc.rows : Len(doc.rows[j]) > Len(doc.headers)
    /\ Len(parsed.students) = 2

\* the non-empty cells of row r, from column i on, under the headers whose
\* name contains 'class'
RECURSIVE ClassCellsFrom(_, _, _)
ClassCellsFrom(d, r, i) ==
    IF i > Len(r) THEN <<>>
    ELSE (IF i <= Len(d.headers) /\ ContainsClass(Lower(d.headers[i])) /\ r[i] # ""
          THEN <<r[i]>> ELSE <<>>)
         \o ClassCellsFrom(d, r, i + 1)

\* the non-empty cells of row r, from column i on, under the headers whose
\* name contains 'grade' or 'score'
RECURSIVE GradeCellsFrom(_, _, _)
GradeCellsFrom(d, r, i) ==
    IF i > Len(r) THEN <<>>
    ELSE (IF /\ i <= Len(d.headers)
             /\ ContainsGrade(Lower(d.headers[i])) \/ ContainsScore(Lower(d.headers[i]))
             /\ r[i] # <<>>
          THEN <<r[i]>> ELSE <<>>)
         \o GradeCellsFrom(d, r, i + 1)

\* C14: in a table record the class titles are the whole texts of the
\* non-empty cells under the headers containing 'class', and the grade values
\* the whole texts of the non-empty cells under the headers containing
\* 'grade' or 'score', one per cell, in column order.
C14_WholeCellPerColumn ==
    (ppc = "done" /\ doc.table) =>
        \A j \in DOMAIN RowsWithCells(doc) :
            LET r == RowsWithCells(doc)[j]
                raw == StudentsRaw(doc)[j]
                enrolled == parsed.students[j].enrolled_classes
            IN  /\ [k \in DOMAIN enrolled |-> TitleOfLocal(parsed, enrolled[k])]
                      = ClassCellsFrom(doc, r, 1)
                /\ GradeVals(raw) = GradeCellsFrom(doc, r, 1)

\* the class names of the records from position idx on, in record order
RECURSIVE ClassNamesFrom(_, _)
ClassNamesFrom(raws, idx) ==
    IF idx > Len(raws) THEN <<>>
    ELSE ClassNames(raws[idx]) \o ClassNamesFrom(raws, idx + 1)

\* the position at which a title first appears in a sequence of names
FirstAppearance(t, names) == CHOOSE i \in DOMAIN names :
                                /\ names[i] = t
                                /\ \A j \in 1..(i - 1) : names[j] # t

\* C16: in one parse result the students carry the ids 1..N in record
\* order, the classes the ids 1..M in order of first appearance of their
\* title, no title twice, a repeated class name reuses its id, and every
\* class id of a student or grade is one of the M ids.
C16_LocalIdsDense ==
    ppc = "done" =>
        LET raws == StudentsRaw(doc)
            all == ClassNamesFrom(raws, 1)
            N == Len(parsed.students)
            M == Len(parsed.classes)
        IN  /\ N = Len(raws)
            /\ \A i \in 1..N :
                  /\ parsed.students[i].id = i
                  /\ parsed.students[i].name = RawName(raws[i], i)
                  /\ LET names == ClassNames(raws[i])
                          enrolled == parsed.students[i].enrolled_classes
                      IN  /\ Len(enrolled) = Len(names)
                          /\ \A k \in DOMAIN enrolled :
                                /\ enrolled[k] \in 1..M
                                /\ parsed.classes[enrolled[k]].title = names[k]
            /\ \A i \in 1..M : parsed.classes[i].id = i
            /\ {parsed.classes[i].title : i \in 1..M} = Range(all)
            /\ \A i, j \in 1..M :
                  i < j => FirstAppearance(parsed.classes[i].title, all)
                             < FirstAppearance(parsed.classes[j].title, all)
            /\ \A g \in Range(parsed.grades) :
                  g.class_id \in 1..M /\ g.student_id \in 1..N

\* two records name the same class, the second one after another class:
\* two classes, both students enrolled in the first, and a grade
C16_Witness ==
    /\ ppc = "done"
    /\ Len(parsed.students) = 2
    /\ Len(parsed.classes) = 2
    /\ InSeq(1, parsed.students[1].enrolled_classes)
    /\ parsed.students[2].enrolled_classes = <<2, 1>>
    /\ parsed.grades # <<>>

\* the age text of a record (empty: none)
AgeText(raw) == IF DictHas(raw, "age") THEN raw[DictIndex(raw, "age")].v ELSE <<>>

\* a text that is an integer literal: blanks, an optional sign, digits, blanks
IsIntText(t) ==
    LET u == Strip(t)
        body == IF u # <<>> /\ IsSign(Head(u)) THEN Tail(u) ELSE u
    IN  body # <<>> /\ AllDigits(body)

\* the positions of a record whose class name stands next to a grade value
\* that does not parse
UnparsedPositions(raw) ==
    {i \in 1..Len(ClassNames(raw)) :
        /\ i <= Len(GradeVals(raw))
        /\ parse_score(Some(GradeVals(raw)[i])) = Nothing}

\* C12: the call returns for every document; an age text that is no integer
\* gives the age None, every grade record holds a number as score, a class
\* next to a grade value that does not parse gives no grade record, and the
\* student is still enrolled in every class of the record.
C12_MalformedValuesBecomeNull ==
    ppc = "done" =>
        /\ \A g \in Range(parsed.grades) : g.score \in Int
        /\ \A idx \in DOMAIN StudentsRaw(doc) :
              LET raw == StudentsRaw(doc)[idx]
                  names == ClassNames(raw)
                  st == parsed.students[idx]
                  gs == SelectSeq(parsed.grades, LAMBDA g : g.student_id = idx)
              IN  /\ ~IsIntText(AgeText(raw)) => st.age = Nothing
                  /\ st.age # Nothing => st.age[1] \in Int
                  /\ Len(st.enrolled_classes) = Len(names)
                  /\ Len(gs) <= Len(names) - Cardinality(UnparsedPositions(raw))
                  /\ \A i \in UnparsedPositions(raw) :
                        (\A k \in DOMAIN names : names[k] = names[i] => k = i) =>
                            /\ \E c \in Range(parsed.classes) :
                                  c.title = names[i] /\ InSeq(c.id, st.enrolled_classes)
                            /\ \A g \in Range(gs) :
                                  TitleOfLocal(parsed, g.class_id) # names[i]

\* a record whose age text is no integer and whose class stands next to a
\* grade value that does not parse: the student is enrolled, without a grade
C12_Witness ==
    /\ ppc = "done"
    /\ \E idx \in DOMAIN StudentsRaw(doc) :
          LET raw == StudentsRaw(doc)[idx]
          IN  /\ AgeText(raw) # <<>>
              /\ ~IsIntText(AgeText(raw))
              /\ UnparsedPositions(raw) # {}
              /\ parsed.students[idx].age = Nothing
              /\ parsed.students[idx].enrolled_classes # <<>>
              /\ \A g \in Range(parsed.grades) : g.student_id # idx

\* the grade records of the student numbered idx
GradesOfRecord(ds, idx) ==
    {k \in DOMAIN ds.grades : ds.grades[k].student_id = idx}

\* the positions of a record at which a class name stands next to a grade
\* value that parses as a score
PairedPositions(raw) ==
    {i \in 1..Len(ClassNames(raw)) :
        /\ i <= Len(GradeVals(raw))
        /\ parse_score(Some(GradeVals(raw)[i])) # Nothing}

\* C6: class names and grade values of one record are paired by position:
\* the record's grades are exactly those of the positions that hold both a
\* class name and a grade value, each with that class and that score, so a
\* class at or beyond the number of grade values gets no grade; the student
\* is still enrolled in every class of the record.
C6_PositionalPairing ==
    ppc = "done" =>
        \A idx \in DOMAIN StudentsRaw(doc) :
            LET raw == StudentsRaw(doc)[idx]
                names == ClassNames(raw)
                gs == SelectSeq(parsed.grades, LAMBDA g : g.student_id = idx)
            IN  /\ Len(parsed.students[idx].enrolled_classes) = Len(names)
                /\ Len(gs) = Cardinality(PairedPositions(raw))
                /\ \A k \in GradesOfRecord(parsed, idx) :
                      \E i \in PairedPositions(raw) :
                          /\ TitleOfLocal(parsed, parsed.grades[k].class_id) = names[i]
                          /\ parsed.grades[k].score = parse_score(Some(GradeVals(raw)[i]))[1]

-----------------------------------------------------------------------------
(* Properties of database.insert_data                                      *)

\* the grades row with the given id
StoredGrade(gid) == CHOOSE r \in Range(grades_table) : r.id = gid

-----------------------------------------------------------------------------
(* Properties of FieldSplitter                                             *)

\* the characters of a text that are neither blanks nor delimiters
Letters(t) == SelectSeq(t, LAMBDA c : ~IsSpace(c) /\ ~IsDelimiter(c))

RECURSIVE LettersOfAll(_)
LettersOfAll(pieces) ==
    IF pieces = <<>> THEN <<>> ELSE Letters(Head(pieces)) \o LettersOfAll(Tail(pieces))

\* the positions at which a piece of t starts: a character that is neither
\* blank nor delimiter, with only blanks between it and the delimiter (or the
\* start of the text) before it
PieceStarts(t) ==
    {i \in DOMAIN t :
        /\ ~IsSpace(t[i]) /\ ~IsDelimiter(t[i])
        /\ \E j \in 0..(i - 1) :
              /\ j = 0 \/ IsDelimiter(t[j])
              /\ \A k \in (j + 1)..(i - 1) : IsSpace(t[k])}

\* C13: the split gives, in order, the trimmed non-empty pieces of the text
\* between the delimiters ; , | / ("A; B,C" gives [A, B, C]; null gives
\* none), and splitting the result rejoined with "; " gives the result again.
C13_SplitTrimmedAndIdempotent ==
    /\ fspc \in {"split", "done"} =>
          /\ \A i \in DOMAIN cellOut :
                /\ cellOut[i] # <<>>
                /\ ~IsSpace(cellOut[i][1]) /\ ~IsSpace(cellOut[i][Len(cellOut[i])])
                /\ \A k \in DOMAIN cellOut[i] : ~IsDelimiter(cellOut[i][k])
          /\ cellIn = Nothing => cellOut = <<>>
          /\ cellIn # Nothing =>
                /\ Len(cellOut) = Cardinality(PieceStarts(cellIn[1]))
                /\ LettersOfAll(cellOut) = Letters(cellIn[1])
          /\ cellIn = Some(<<"A", ";", " ", "B", ",", "C">>) =>
                cellOut = << <<"A">>, <<"B">>, <<"C">> >>
    /\ fspc = "done" => cellAgain = cellOut

\* "A; B,C" was split into A, B, C and the result split again
C13_Witness ==
    /\ fspc = "done"
    /\ cellIn = Some(<<"A", ";", " ", "B", ",", "C">>)
    /\ cellOut = << <<"A">>, <<"B">>, <<"C">> >>
    /\ cellAgain = cellOut

-----------------------------------------------------------------------------
(* Properties of parse_score                                               *)

\* the first position at which a signed or unsigned decimal number starts
\* (0: there is none)
TokenStart(t) ==
    LET starts == {i \in DOMAIN t :
                      \/ IsDigit(t[i])
                      \/ (IsSign(t[i]) /\ i < Len(t) /\ IsDigit(t[i + 1]))}
    IN  IF starts = {} THEN 0 ELSE CHOOSE i \in starts : \A j \in starts : i <= j

\* the end of the longest run of digits that starts at position i
RECURSIVE DigitRunEnd(_, _)
DigitRunEnd(t, i) ==
    IF i < Len(t) /\ IsDigit(t[i + 1]) THEN DigitRunEnd(t, i + 1) ELSE i

\* the first numeric token  [+-]? digits ( . digits )?  of a text, as a float
FirstNumericToken(t) ==
    LET st == TokenStart(t)
        d1 == IF IsSign(t[st]) THEN st + 1 ELSE st
        e1 == DigitRunEnd(t, d1)
        hasFrac == e1 + 1 < Len(t) /\ t[e1 + 1] = "." /\ IsDigit(t[e1 + 2])
        e2 == IF hasFrac THEN DigitRunEnd(t, e1 + 2) ELSE e1
        ip == SubText(t, d1, e1)
        fp == IF hasFrac THEN SubText(t, e1 + 2, e2) ELSE <<>>
        mag == DigitsValue(ip) * FloatScale + DigitsValue(fp) * Pow10(FracDigits - Len(fp))
    IN  IF st = 0 THEN Nothing
        ELSE IF t[st] = "-" THEN Some(0 - mag) ELSE Some(mag)

\* C10: parse_score returns the first signed/unsigned decimal token of its
\* argument as a float, whatever surrounds the token ("[9]" gives 9.0, "88%"
\* gives 88.0), and None for None and for a text without such a token.
C10_FirstNumericToken ==
    scpc = "done" =>
        scoreOut = (IF scoreIn = Nothing THEN Nothing ELSE FirstNumericToken(scoreIn[1]))

-----------------------------------------------------------------------------
(* Properties of the dashboard                                             *)

GradeIdsOf(rows) == {g.id : g \in rows}

CancelKeys == {"cancel_delete", "cancel_delete_grade"}

\* C22: in every run of the dashboard script, a student row is deleted only
\* if the session held the confirmation flag of that student before the run,
\* and then the flag is cleared and no grade row of the student is left; a
\* grade row is deleted only if the session held the confirmation flag of that
\* grade before the run or the row belongs to a student deleted in the run; a
\* confirmation flag is set only in the run started by the click on 'Delete'
\* for its id; and a run started by a click on 'Cancel' deletes no row and
\* leaves the flag of its id cleared.
C22_DeleteOnlyAfterConfirmation ==
    [][ /\ \A s \in app_students \ app_students' :
              /\ Key("confirm_delete_student", s) \in session_state
              /\ Key("confirm_delete_student", s) \notin session_state'
              /\ \A g \in app_grades' : g.student_id # s
        /\ \A g \in app_grades :
              g.id \notin GradeIdsOf(app_grades') =>
                  \/ Key("confirm_delete_grade", g.id) \in session_state
                  \/ g.student_id \in app_students \ app_students'
        /\ \A k \in session_state' \ session_state :
              \/ k[1] = "confirm_delete_student" /\ clicked' = Key("delete_prompt", k[2])
              \/ k[1] = "confirm_delete_grade" /\ clicked' = Key("delete_grade_prompt", k[2])
        /\ (clicked' # NoClick /\ clicked'[1] \in CancelKeys) =>
              /\ app_students' = app_students
              /\ app_grades' = app_grades
              /\ Key("confirm_delete_student", clicked'[2]) \in session_state' =>
                     clicked'[1] # "cancel_delete"
              /\ Key("confirm_delete_grade", clicked'[2]) \in session_state' =>
                     clicked'[1] # "cancel_delete_grade"
      ]_vars

\* a run started by 'Confirm delete' has deleted the selected student and the
\* grades given to that student, where no grade can be deleted by itself
C22_Witness ==
    /\ clicked = Key("confirm_delete", sel_sid)
    /\ rerun_pending
    /\ sel_sid \notin app_students
    /\ keyed_button = "raises"
    /\ app_sequence.grades >= 2
    /\ app_grades = {}
    /\ app_students # {}
    /\ session_state # {}

=============================================================================
